---- MODULE Spec2Model ----
(***************************************************************************)
(* Position-keyed statistics store of the chess opening explorer:          *)
(* CacheManager (SQLite table move_stats, LMDB key/value store),           *)
(* DataManager.get_position_stats with its in-memory result cache, the     *)
(* synthetic estimator, the archive processors and the downloaders.        *)
(* Timestamps and evaluation_score are left out of the rows: no operation  *)
(* modelled here reads them.                                               *)
(***************************************************************************)
EXTENDS Integers, Sequences, FiniteSets, TLC

VARIABLES
    lmdb_env,        \* CacheManager.lmdb_env is usable (FALSE: SQLite-only mode)
    lmdb,            \* LMDB content: key <<fen, move, network>> -> last record put
    sqlite,          \* rows of the SQLite table move_stats
    position_cache,  \* DataManager._position_cache: cache key -> cached list
    call,            \* the last API call made (its arguments)
    ret,             \* what the last API call returned
    nCalls,          \* number of API calls made so far
    thr,             \* concurrent store_game_result callers: thread -> local state
    files,           \* file system of the downloaders: path -> chunks on disk
    dl,              \* the download call in progress
    retry_count,     \* DatasetManager._retry_count of the modelled dataset
    arch,            \* the archive processor's run
    dataset_db,      \* rows of position_stats in cache/dataset_stats.db
    bg               \* DataManager's ingestion queue, its flag, lock, callers and workers

vars == <<lmdb_env, lmdb, sqlite, position_cache, call, ret, nCalls, thr, files, dl,
         retry_count, arch, dataset_db, bg>>

(***************************************************************************)
(* Bounds of the model.                                                    *)
(***************************************************************************)
MaxCalls == 4
MaxQueries == 2

(***************************************************************************)
(* Positions.  A position description is modelled by the board it          *)
(* describes and its two move counters; chess.Board(fen) raises ValueError *)
(* on the description "invalid_fen_string".  "nine pawns" is the starting  *)
(* position with a ninth white pawn on e3,                                 *)
(*   rnbqkbnr/pppppppp/8/8/8/4P3/PPPPPPPP/RNBQKBNR w KQkq - 0 1,           *)
(* a description with a wrong piece count: chess.Board(fen) checks the     *)
(* syntax of the six fields only and sets the board up.                    *)
(***************************************************************************)
Fen(b, h, f) == [board |-> b, hm |-> h, fm |-> f]

StartFen == Fen("start", 0, 1)
TacticFen == Fen("tactic", 0, 1)
MateFen == Fen("mate", 0, 1)
BadFen == Fen("invalid_fen_string", 0, 0)
NinePawnsFen == Fen("nine pawns", 0, 1)

FenInputs == {StartFen, TacticFen, MateFen, BadFen, NinePawnsFen}

\* chess.Board(fen) does not raise.
Parses(fen) == fen.board # "invalid_fen_string"

\* The description is structurally invalid: it does not parse, or it parses
\* to a board no game can reach (here: nine pawns of one colour).  The code
\* never asks the board whether it is valid, so nothing in it depends on
\* this predicate.
StructurallyInvalid(fen) == ~Parses(fen) \/ fen.board = "nine pawns"

\* Two more boards, each written in two ways.  "e4 ep e3" is the position
\* after 1. e4 with the en passant square e3 written out, "e4" the same
\* position with "-": no black pawn can capture on e3.  "moved king KQkq" is
\* a position whose white king stands on e2, written with the castling
\* field KQkq, "moved king kq" the same with the field kq.
BoardInputs ==
    {"start", "tactic", "mate", "e4 ep e3", "e4", "moved king KQkq", "moved king kq"}

\* board.fen().split(' ')[:4]: the first four fields as python-chess writes
\* them.  The en passant square is written only when an en passant capture
\* is legal, and castling rights only for a king and rook on their squares.
BoardFen(board) ==
    CASE board = "e4 ep e3" -> "e4"
      [] board = "moved king KQkq" -> "moved king kq"
      [] OTHER -> board

normalize_fen_keep_counters(fen) == Fen(BoardFen(fen.board), fen.hm, fen.fm)

normalize_fen_as_given(fen) == fen

\* utils.normalize_fen: the first four FEN fields, then "0" and "1".
normalize_fen(fen) == Fen(BoardFen(fen.board), 0, 1)

\* [move.uci() for move in board.legal_moves], in the order python-chess
\* generates them (piece moves before pawn moves).  Two of the twenty moves
\* of the starting position are kept; "tactic" has one legal move, a pawn
\* capture that gives check; "mate" has none; of the moves of "nine pawns"
\* the advance of the ninth pawn is kept.
LegalMoves(board) ==
    CASE board = "start" -> <<"g1f3", "e2e4">>
      [] board = "tactic" -> <<"e6f7">>
      [] board = "nine pawns" -> <<"e3e4">>
      [] board \in {"e4", "e4 ep e3"} -> <<"e7e5">>
      [] OTHER -> <<>>

PieceType(move) == IF move = "g1f3" THEN "KNIGHT" ELSE "PAWN"
IsCapture(move) == move = "e6f7"
IsCheck(move) == move = "e6f7"

(***************************************************************************)
(* MoveStats and its derived properties.                                   *)
(***************************************************************************)
NoNetwork == "None"
SampleTag == "sample"
RealTag == "real"
SampleFile == "sample_data.pgn"
ArchiveFile == "games.pgn"

\* rowid is 0 in a MoveStats object; in a row of the table it is the place of
\* the row among the rows the primary key does not tell apart (see
\* NextRowid).
MoveStats(fen, move, wins, losses, draws, network, src) ==
    [fen |-> fen, move |-> move, wins |-> wins, losses |-> losses,
     draws |-> draws, network |-> network, src |-> src, rowid |-> 0]

total_games(s) == s.wins + s.losses + s.draws

\* performance_score as the fraction <<numerator, denominator>>:
\* (wins + 0.5*draws)/total, and 0.5 when total_games = 0.
performance_score(s) ==
    IF total_games(s) = 0 THEN <<1, 2>>
    ELSE <<2 * s.wins + s.draws, 2 * total_games(s)>>

\* utils.MoveStats.performance_score: 0.0 when total_games = 0.
utils_performance_score(s) ==
    IF total_games(s) = 0 THEN <<0, 1>>
    ELSE <<2 * s.wins + s.draws, 2 * total_games(s)>>

FracGeq(a, b) == a[1] * b[2] >= b[1] * a[2]

confidence_level_swapped(s) ==
    IF total_games(s) >= 100 THEN "medium"
    ELSE IF total_games(s) >= 50 THEN "high"
    ELSE IF total_games(s) >= 10 THEN "low"
    ELSE "very_low"

\* data_manager.MoveStats.confidence_level
confidence_level(s) ==
    IF total_games(s) >= 100 THEN "high"
    ELSE IF total_games(s) >= 50 THEN "medium"
    ELSE IF total_games(s) >= 10 THEN "low"
    ELSE "very_low"

\* utils.MoveStats.confidence_level
utils_confidence_level(s) ==
    IF total_games(s) < 10 THEN "low"
    ELSE IF total_games(s) < 50 THEN "medium"
    ELSE "high"

\* DatasetProcessor.get_position_stats: the confidence label of a move; a
\* move with no games is skipped (continue) and gets no label.
Skipped == "skipped"

dataset_confidence_level(s) ==
    IF total_games(s) = 0 THEN Skipped
    ELSE IF total_games(s) >= 100 THEN "high"
    ELSE IF total_games(s) >= 50 THEN "medium"
    ELSE "low"

(***************************************************************************)
(* CacheManager: the SQLite table move_stats, PRIMARY KEY (fen, move,      *)
(* network), and the LMDB key/value store.                                 *)
(***************************************************************************)
\* Two rows conflict on the primary key when fen, move and network are
\* equal and network is not NULL: the column network is nullable, and in a
\* SQLite unique index a NULL is distinct from every other NULL.
SameKey(a, b) ==
    /\ a.fen = b.fen
    /\ a.move = b.move
    /\ a.network = b.network
    /\ a.network # NoNetwork

\* The rows of the table that have the fen and the move of stats and no
\* network: INSERT OR REPLACE never replaces them, so that several of them,
\* also equal ones, can be in the table.
Unkeyed(table, stats) ==
    {r \in table : r.fen = stats.fen /\ r.move = stats.move /\ r.network = NoNetwork}

\* The rowid of the row inserted for stats.  SQLite gives every inserted
\* row a rowid above those in the table; the model keeps it for the rows
\* without network, as their number in the order of insertion among the
\* rows of their fen and move, and as 0 for the rows with a network, which
\* the primary key identifies.
NextRowid(table, stats) ==
    IF stats.network # NoNetwork THEN 0
    ELSE Cardinality(Unkeyed(table, stats)) + 1

\* INSERT OR REPLACE INTO move_stats ...: the row with the same primary key
\* is deleted and the new row inserted.
update_move_stats(table, stats) ==
    {r \in table : ~SameKey(r, stats)}
        \cup {[stats EXCEPT !.rowid = NextRowid(table, stats)]}

\* MoveStats(fen=row[0], ...): the object built from the columns of a row.
StatsOfRow(r) == [r EXCEPT !.rowid = 0]

\* GameResult(fen, move, result, network, source_file)
GameResult(fen, move, result, network, src) ==
    [fen |-> fen, move |-> move, result |-> result, network |-> network, src |-> src]

Results == {"1-0", "0-1", "1/2-1/2"}

\* The MoveStats that store_game_result builds from one game result when
\* LMDB is not available.
StatsOfGameResult(gr) ==
    MoveStats(gr.fen, gr.move,
              IF gr.result = "1-0" THEN 1 ELSE 0,
              IF gr.result = "0-1" THEN 1 ELSE 0,
              IF gr.result = "1/2-1/2" THEN 1 ELSE 0,
              gr.network, gr.src)

\* store_game_result, SQLite-only mode: the table after the call.
StoreGameResultSqlite(table, gr) == update_move_stats(table, StatsOfGameResult(gr))

\* store_game_result with LMDB: txn.put(key, value) under the key
\* "fen:move:network"; the SQLite table is not touched.
LmdbKey(gr) == <<gr.fen, gr.move, gr.network>>

StoreGameResultLmdb(db, gr) ==
    [k \in DOMAIN db \cup {LmdbKey(gr)} |-> IF k = LmdbKey(gr) THEN gr ELSE db[k]]

\* ORDER BY (wins + 0.5 * draws) / (wins + losses + draws) DESC: the
\* expression is NULL for a row with no games, and NULL sorts last under
\* DESC.  Rows with equal keys come in primary-key index order: by move,
\* then by network with NULL before every text, then by rowid.  MoveRank
\* is the place of a move among the moves of the model in the order of
\* their text.
MoveRank(move) ==
    CASE move = "e2e4" -> 0
      [] move = "e3e4" -> 1
      [] move = "e6f7" -> 2
      [] move = "e7e5" -> 3
      [] move = "g1f3" -> 4
NetRank(network) ==
    CASE network = NoNetwork -> 0 [] network = RealTag -> 1 [] network = SampleTag -> 2
IndexRank(r) == <<MoveRank(r.move), NetRank(r.network), r.rowid>>

IndexBefore(a, b) ==
    LET x == IndexRank(a)
        y == IndexRank(b)
    IN \/ x[1] < y[1]
       \/ x[1] = y[1] /\ x[2] < y[2]
       \/ x[1] = y[1] /\ x[2] = y[2] /\ x[3] < y[3]

\* get_move_stats(fen, move, network): cursor.fetchone() of the SELECT with
\* or without `AND network = ?`: the set holding the first matching row in
\* primary-key index order, empty for None.
get_move_stats(table, fen, move, network) ==
    LET rows == {r \in table : r.fen = fen /\ r.move = move
                               /\ (network # NoNetwork => r.network = network)}
    IN IF rows = {} THEN {}
       ELSE {StatsOfRow(CHOOSE r \in rows : \A q \in rows \ {r} : IndexBefore(r, q))}

SqlKeyGreater(a, b) ==
    /\ total_games(a) # 0
    /\ \/ total_games(b) = 0
       \/ (2 * a.wins + a.draws) * total_games(b) > (2 * b.wins + b.draws) * total_games(a)

SqlBefore(a, b) ==
    \/ a = b
    \/ SqlKeyGreater(a, b)
    \/ (~SqlKeyGreater(b, a) /\ IndexBefore(a, b))

RECURSIVE SortRows(_)
SortRows(S) ==
    IF S = {} THEN <<>>
    ELSE LET first == CHOOSE r \in S : \A q \in S : SqlBefore(r, q)
         IN <<StatsOfRow(first)>> \o SortRows(S \ {first})

get_all_moves_for_position(table, fen, network) ==
    SortRows({r \in table : r.fen = fen
                            /\ (network # NoNetwork => r.network = network)})

(***************************************************************************)
(* DataManager: the synthetic estimator.                                   *)
(***************************************************************************)
RandSpan == 5

\* random.randint(-5, 5): any of the eleven integers.
JitterVals == (0 - RandSpan)..RandSpan

\* The random draws of one _fetch_position_specific_data call on n legal
\* moves: a pair (draw for wins, draw for losses) for every move, each draw
\* independent of the others.
JitterInputs(n) == [1..n -> JitterVals \X JitterVals]

Max(a, b) == IF a >= b THEN a ELSE b

BaseWins(move) ==
    CASE PieceType(move) = "PAWN" -> 45
      [] PieceType(move) = "KNIGHT" -> 40
      [] OTHER -> 35

BaseLosses(move) ==
    CASE PieceType(move) = "PAWN" -> 35
      [] PieceType(move) = "KNIGHT" -> 40
      [] OTHER -> 45

\* network or "sample"
SampleNetwork(network) == IF network = NoNetwork THEN SampleTag ELSE network

\* draws = max(0, 100 - wins - losses)
SampleDraws(wins, losses) == Max(0, 100 - wins - losses)

\* _generate_sample_stat_for_move; jw and jl are the two random draws.
generate_sample_stat_for_move(fen, move, network, jw, jl) ==
    LET wins == BaseWins(move) + (IF IsCapture(move) THEN 5 ELSE 0)
                + (IF IsCheck(move) THEN 3 ELSE 0) + jw
        losses == BaseLosses(move) + (IF IsCapture(move) THEN 5 ELSE 0)
                  + (IF IsCheck(move) THEN 3 ELSE 0) + jl
    IN MoveStats(fen, move, Max(0, wins), Max(0, losses),
                 Max(0, SampleDraws(wins, losses)), SampleNetwork(network), SampleFile)

\* _fetch_position_specific_data: the list of generated stats, in the order
\* of legal_moves; jit[i] is the pair of random draws of the i-th move.
fetch_position_specific_data(fen, legal_moves, network, jit) ==
    [i \in 1..Len(legal_moves) |->
        generate_sample_stat_for_move(fen, legal_moves[i], network, jit[i][1], jit[i][2])]

\* for stat in stats: self.cache_manager.update_move_stats(stat)
RECURSIVE StoreAll(_, _)
StoreAll(table, stats) ==
    IF stats = <<>> THEN table
    ELSE StoreAll(update_move_stats(table, Head(stats)), Tail(stats))

(***************************************************************************)
(* DataManager.get_position_stats and its result cache.                    *)
(***************************************************************************)
MinGamesInputs == {0, 100, 101}
NetworkInputs == {NoNetwork, RealTag}

\* cache_key = f"{normalized_fen}:{network or 'all'}:{min_games}"
CacheKey(nfen, network, min_games) ==
    <<nfen, IF network = NoNetwork THEN "all" ELSE network, min_games>>

FilterMinGamesStrict(stats, min_games) ==
    LET Keep(s) == total_games(s) > min_games
    IN IF min_games > 0 THEN SelectSeq(stats, Keep) ELSE stats

AtLeast(stats, min_games) ==
    LET Keep(s) == total_games(s) >= min_games IN SelectSeq(stats, Keep)

\* if min_games > 0: stats = [stat for stat in stats if stat.total_games >= min_games]
FilterMinGames(stats, min_games) ==
    IF min_games > 0 THEN AtLeast(stats, min_games) ELSE stats

\* except Exception as e: ... return []
OnPositionError == [raised |-> FALSE, list |-> <<>>]

Returned(list) == [raised |-> FALSE, list |-> list]

CacheWith(cache, key, stats) ==
    [k \in DOMAIN cache \cup {key} |-> IF k = key THEN stats ELSE cache[k]]

ApiCall(op, fen, move, result, network, min_games) ==
    [op |-> op, fen |-> fen, move |-> move, result |-> result,
     network |-> network, min_games |-> min_games]

NoCall == ApiCall("none", StartFen, "", "", NoNetwork, 0)

\* What one call of get_position_stats does: the value it returns and the
\* SQLite table and result cache it leaves.  jit holds the random draws of
\* the synthetic estimator, used when the store has nothing for the position.
Outcome(r, table, cache) == [ret |-> r, sqlite |-> table, position_cache |-> cache]

get_position_stats(table, cache, fen, network, min_games, jit) ==
    IF ~Parses(fen)
    THEN Outcome(OnPositionError, table, cache)
    ELSE LET nfen == normalize_fen(fen)
             key == CacheKey(nfen, network, min_games)
             legal_moves == LegalMoves(nfen.board)
             stored == get_all_moves_for_position(table, nfen, network)
             stats == fetch_position_specific_data(nfen, legal_moves, network, jit)
         IN IF key \in DOMAIN cache
            THEN Outcome(Returned(cache[key]), table, cache)
            ELSE IF legal_moves = <<>>
            THEN Outcome(Returned(<<>>), table, cache)
            ELSE IF stored # <<>>
            THEN Outcome(Returned(FilterMinGames(stored, min_games)), table,
                         CacheWith(cache, key, FilterMinGames(stored, min_games)))
            ELSE Outcome(Returned(FilterMinGames(stats, min_games)),
                         StoreAll(table, stats),
                         CacheWith(cache, key, FilterMinGames(stats, min_games)))

\* The call reaches _fetch_position_specific_data: the description parses,
\* the result is not cached, the position has legal moves and the table has
\* no row for it (under the tag, when one is given).
Synthesizes(table, cache, fen, network, min_games) ==
    /\ Parses(fen)
    /\ CacheKey(normalize_fen(fen), network, min_games) \notin DOMAIN cache
    /\ LegalMoves(normalize_fen(fen).board) # <<>>
    /\ get_all_moves_for_position(table, normalize_fen(fen), network) = <<>>

\* The draws a call makes: random.randint is called in the estimator only.
DrawsOf(table, cache, fen, network, min_games) ==
    IF Synthesizes(table, cache, fen, network, min_games)
    THEN JitterInputs(Len(LegalMoves(normalize_fen(fen).board)))
    ELSE {<<>>}

GetPositionStats(fen, network, min_games) ==
    /\ nCalls < MaxCalls
    /\ nCalls' = nCalls + 1
    /\ call' = ApiCall("get_position_stats", fen, "", "", network, min_games)
    /\ UNCHANGED <<lmdb_env, lmdb, thr, files, dl, retry_count, arch, dataset_db, bg>>
    /\ \E jit \in DrawsOf(sqlite, position_cache, fen, network, min_games) :
          LET r == get_position_stats(sqlite, position_cache, fen, network, min_games, jit)
          IN /\ ret' = r.ret
             /\ sqlite' = r.sqlite
             /\ position_cache' = r.position_cache

\* CacheManager.store_game_result(game_result), called on its own.
StoreGameResult(fen, move, result, network) ==
    /\ nCalls < MaxCalls
    /\ nCalls' = nCalls + 1
    /\ call' = ApiCall("store_game_result", fen, move, result, network, 0)
    /\ ret' = Returned(<<>>)
    /\ UNCHANGED <<lmdb_env, position_cache, thr, files, dl, retry_count, arch, dataset_db, bg>>
    /\ LET gr == GameResult(fen, move, result, network, ArchiveFile)
       IN IF ~lmdb_env
          THEN /\ sqlite' = StoreGameResultSqlite(sqlite, gr)
               /\ UNCHANGED lmdb
          ELSE /\ lmdb' = StoreGameResultLmdb(lmdb, gr)
               /\ UNCHANGED sqlite

StoreKeys == {<<normalize_fen(StartFen), "e2e4">>, <<normalize_fen(StartFen), "g1f3">>}

EmptyFn == [k \in {} |-> 0]

InitStore ==
    /\ lmdb_env \in BOOLEAN
    /\ lmdb = EmptyFn
    /\ sqlite = {}
    /\ position_cache = EmptyFn
    /\ call = NoCall
    /\ ret = Returned(<<>>)
    /\ nCalls = 0

NoThreads ==
    thr = EmptyFn

\* The files of the working directory: a function from paths to contents.
SamplePath == "cache/sample_data.pgn"

Exists(fs, path) == path \in DOMAIN fs
WriteFile(fs, path, c) == [q \in DOMAIN fs \cup {path} |-> IF q = path THEN c ELSE fs[q]]

\* DataManager._ensure_basic_dataset: the sample file is written when it
\* does not exist.
ensure_basic_dataset(fs) ==
    IF Exists(fs, SamplePath) THEN fs
    ELSE WriteFile(fs, SamplePath,
                   [got |-> 1, of |-> 1, mb |-> 0, header |-> "none", readable |-> TRUE])

\* A store that stands alone (CacheManager()) in an empty working directory.
NoDownload ==
    /\ files = EmptyFn
    /\ dl = EmptyFn
    /\ retry_count = 0

\* DataManager() in an empty working directory: _initialize_datasets has
\* called _ensure_basic_dataset, and no download has been asked for.
InitDatasets ==
    /\ files = ensure_basic_dataset(EmptyFn)
    /\ dl = EmptyFn
    /\ retry_count = 0

NoArchive ==
    /\ arch = EmptyFn
    /\ dataset_db = {}

NoBackground ==
    bg = EmptyFn

Init == InitStore /\ NoThreads /\ InitDatasets /\ NoArchive /\ NoBackground

\* Spec follows callers that record games and query positions the store or
\* the cache answers; the queries that reach the synthetic estimator are
\* followed in SpecSynth.
Next ==
    \/ \E fen \in FenInputs, network \in NetworkInputs, min_games \in MinGamesInputs :
          /\ ~Synthesizes(sqlite, position_cache, fen, network, min_games)
          /\ GetPositionStats(fen, network, min_games)
    \/ \E key \in StoreKeys, result \in Results, network \in {RealTag} :
          StoreGameResult(key[1], key[2], result, network)

Spec == Init /\ [][Next]_vars

\* SpecSynth: the first query of a DataManager on an empty store, with every
\* outcome of the estimator's draws, and the same position and tag queried
\* again.
FirstQuery(fen, network, min_games) ==
    /\ nCalls = 0
    /\ GetPositionStats(fen, network, min_games)

QueryAgain(min_games) ==
    /\ nCalls \in 1..(MaxQueries - 1)
    /\ GetPositionStats(call.fen, call.network, min_games)

NextSynth ==
    \/ \E fen \in FenInputs, network \in NetworkInputs, min_games \in MinGamesInputs :
          FirstQuery(fen, network, min_games)
    \/ \E min_games \in MinGamesInputs : QueryAgain(min_games)

SpecSynth == Init /\ [][NextSynth]_vars

(***************************************************************************)
(* Properties of the store and of get_position_stats (specification Spec). *)
(***************************************************************************)
Tallies(rows) ==
    IF rows = {} THEN <<0, 0, 0>>
    ELSE LET r == CHOOSE x \in rows : TRUE IN <<r.wins, r.losses, r.draws>>

Contribution(result) ==
    <<IF result = "1-0" THEN 1 ELSE 0,
      IF result = "0-1" THEN 1 ELSE 0,
      IF result = "1/2-1/2" THEN 1 ELSE 0>>

Plus3(a, b) == <<a[1] + b[1], a[2] + b[2], a[3] + b[3]>>

IsGetPositionStats(c) == c.op = "get_position_stats"
IsStoreGameResult(c) == c.op = "store_game_result"
HasLegalMoves(fen) == Parses(fen) /\ LegalMoves(normalize_fen(fen).board) # <<>>
RowsAt(table, fen) == {r \in table : r.fen = fen}
Range(seq) == {seq[i] : i \in 1..Len(seq)}

\* C1: every merge-update call (store_game_result carrying one game's
\* outcome) adds its contribution to the aggregate read back for its
\* (position, move, source_tag) key: wins, losses and draws after the call
\* are those before the call plus the call's contribution.
C1_MergeAdditive ==
    [][(IsStoreGameResult(call') /\ nCalls' = nCalls + 1) =>
         Tallies(get_move_stats(sqlite', call'.fen, call'.move, call'.network))
           = Plus3(Tallies(get_move_stats(sqlite, call'.fen, call'.move, call'.network)),
                   Contribution(call'.result))]_vars

\* C3: the list a get_position_stats call returns for a position with legal
\* moves holds exactly the rows the store holds for that position and tag
\* (with at least min_games games) when the call returns: a cached list that
\* a later merge-update made stale is never returned.
C3_ReturnReflectsStore ==
    (IsGetPositionStats(call) /\ HasLegalMoves(call.fen)) =>
        Range(ret.list) =
            Range(FilterMinGames(
                get_all_moves_for_position(sqlite, normalize_fen(call.fen), call.network),
                call.min_games))

\* C4: every synthesized aggregate (provenance sample_data.pgn) is stored
\* under the reserved source_tag "sample", and so is every one returned.
C4_SyntheticOnlyUnderSample ==
    /\ \A r \in sqlite : r.src = SampleFile => r.network = SampleTag
    /\ \A r \in Range(ret.list) : r.src = SampleFile => r.network = SampleTag

CoversLegalMoves(list, legal_moves) ==
    /\ Len(list) = Len(legal_moves)
    /\ {s.move : s \in Range(list)} = Range(legal_moves)
    /\ \A s \in Range(list) :
          s.wins >= 0 /\ s.losses >= 0 /\ s.draws >= 0 /\ total_games(s) > 0

SynthCase(c, table) ==
    /\ IsGetPositionStats(c)
    /\ HasLegalMoves(c.fen)
    /\ RowsAt(table, normalize_fen(c.fen)) = {}

\* C8 as stated: a get_position_stats call for a position with legal moves
\* and no stored aggregates returns one entry for every legal move, each
\* with non-negative tallies and total_games > 0.
C8_Original ==
    [][(nCalls' = nCalls + 1 /\ SynthCase(call', sqlite)) =>
         CoversLegalMoves(ret'.list, LegalMoves(normalize_fen(call'.fen).board))]_vars

\* C8 amended: the same, for calls with min_games <= 100.
C8_SynthCoversLegalMoves ==
    [][(nCalls' = nCalls + 1 /\ SynthCase(call', sqlite) /\ call'.min_games <= 100) =>
         CoversLegalMoves(ret'.list, LegalMoves(normalize_fen(call'.fen).board))]_vars

\* A call with min_games = 100 on the empty store returned the estimate of
\* the capturing, checking pawn move, whose wins and losses exceed 100.
C8_Witness ==
    /\ IsGetPositionStats(call)
    /\ call.fen = TacticFen
    /\ call.min_games = 100
    /\ Len(ret.list) = 1
    /\ ret.list[1].src = SampleFile
    /\ ret.list[1].draws = 0
    /\ total_games(ret.list[1]) > 100

SortedByPerformance(list) ==
    \A i \in 1..Len(list) : \A j \in i..Len(list) :
        FracGeq(performance_score(list[i]), performance_score(list[j]))

\* C9: every list get_position_stats returns is ordered by descending
\* performance_score.
C9_ReturnSortedByPerformance ==
    IsGetPositionStats(call) => SortedByPerformance(ret.list)

\* C10: a get_position_stats call with a structurally invalid position
\* description (one that does not parse, or one with a wrong piece count)
\* returns the empty list, does not raise, and leaves the result cache, the
\* SQLite table and LMDB unchanged.
C10_InvalidPositionEmpty ==
    [][(nCalls' = nCalls + 1 /\ IsGetPositionStats(call')
        /\ StructurallyInvalid(call'.fen)) =>
         /\ ret' = Returned(<<>>)
         /\ sqlite' = sqlite
         /\ position_cache' = position_cache
         /\ lmdb' = lmdb]_vars

\* The part of C10 the code keeps: a description chess.Board rejects yields
\* the empty list and changes nothing.
UnparsableEmpty ==
    [][(nCalls' = nCalls + 1 /\ IsGetPositionStats(call') /\ ~Parses(call'.fen)) =>
         /\ ret' = Returned(<<>>)
         /\ sqlite' = sqlite
         /\ position_cache' = position_cache
         /\ lmdb' = lmdb]_vars

\* The description with nine white pawns was queried on an empty store: an
\* estimate for the pawn's advance was returned, stored and cached.
NinePawnsStored ==
    /\ IsGetPositionStats(call)
    /\ call.fen = NinePawnsFen
    /\ Len(ret.list) = 1
    /\ ret.list[1].move = "e3e4"
    /\ \E r \in sqlite : r.fen = normalize_fen(NinePawnsFen) /\ r.src = SampleFile
    /\ DOMAIN position_cache # {}

(***************************************************************************)
(* Concurrent callers of CacheManager.store_game_result on one key         *)
(* (specification SpecConc).  Each thread first builds what it is going to *)
(* write, then executes its one write statement: INSERT OR REPLACE and     *)
(* commit on the shared SQLite connection, or txn.put in an LMDB write     *)
(* transaction.  Either statement is atomic.                               *)
(***************************************************************************)
NThreads == 2

Threads == 1..NThreads

ThreadInputs ==
    [Threads -> [pc : {"start"},
                 gr : {GameResult(normalize_fen(StartFen), "e2e4", r, RealTag, ArchiveFile) :
                         r \in Results}]]

\* stats = MoveStats(...) / key = ..., value = json.dumps(...)
ThreadBuild(t) ==
    /\ thr[t].pc = "start"
    /\ thr' = [thr EXCEPT ![t].pc = "built"]
    /\ UNCHANGED <<lmdb_env, lmdb, sqlite, position_cache, call, ret, nCalls,
                   files, dl, retry_count, arch, dataset_db, bg>>

\* self.update_move_stats(stats) / txn.put(key.encode(), value.encode())
ThreadWrite(t) ==
    /\ thr[t].pc = "built"
    /\ thr' = [thr EXCEPT ![t].pc = "done"]
    /\ IF ~lmdb_env
       THEN /\ sqlite' = StoreGameResultSqlite(sqlite, thr[t].gr)
            /\ UNCHANGED lmdb
       ELSE /\ lmdb' = StoreGameResultLmdb(lmdb, thr[t].gr)
            /\ UNCHANGED sqlite
    /\ UNCHANGED <<lmdb_env, position_cache, call, ret, nCalls,
                   files, dl, retry_count, arch, dataset_db, bg>>

InitConc ==
    /\ InitStore
    /\ thr \in ThreadInputs
    /\ NoDownload
    /\ NoArchive
    /\ NoBackground

NextConc ==
    \E t \in Threads : ThreadBuild(t) \/ ThreadWrite(t)

SpecConc == InitConc /\ [][NextConc]_vars

RECURSIVE SumContributions(_)
SumContributions(S) ==
    IF S = {} THEN <<0, 0, 0>>
    ELSE LET t == CHOOSE x \in S : TRUE
         IN Plus3(Contribution(thr[t].gr.result), SumContributions(S \ {t}))

\* C2: once all the concurrent store_game_result calls on one key have
\* returned, the aggregate read back for the key holds the sum of the
\* contributions of all the calls: no increment is lost, none counted twice.
C2_NoLostUpdate ==
    (\A t \in Threads : thr[t].pc = "done") =>
        Tallies(get_move_stats(sqlite, normalize_fen(StartFen), "e2e4", RealTag))
            = SumContributions(Threads)

(***************************************************************************)
(* The downloaders (specification SpecDownload).                           *)
(*   "manager":    DatasetManager.download_dataset, which streams to a     *)
(*                 temporary file in _download_with_retry;                 *)
(*   "archive":    ArchiveDownloader.download_archive;                     *)
(*   "downloader": DatasetDownloader.download_dataset;                     *)
(* the last two write the response straight to the final path.  A file is  *)
(* the number of chunks written to it (got) out of the chunks of the       *)
(* response it was opened for (of), the size of a chunk in MB, what its    *)
(* first eight bytes hold (header) and whether it can be opened for        *)
(* reading.  One dataset of the catalog is modelled, lichess_2022_12, with *)
(* its primary URL and one fallback.                                       *)
(***************************************************************************)
TotalChunks == 2
ChunkMB == 900
SmallChunkMB == 60
ExpectedMB == 1700
NumUrls == 2
MaxRetries == 3
RetryLimit == 3

DatasetName == "lichess_2022_12"
UnknownName == "does-not-exist"
DatasetNames == {DatasetName, UnknownName}

\* dataset_name in self.dataset_sources
InCatalog(name) == name = DatasetName

DatasetPath == "cache/datasets/lichess_2022_12.pgn.zst"
TmpPath == "cache/datasets/lichess_2022_12.pgn.zst.tmp"
ArchivePath == "cache/archives/games.pgn.zst"

FinalPath(kind) == IF kind = "archive" THEN ArchivePath ELSE DatasetPath

\* The first eight bytes of a file: "zstd" when they start with the magic
\* number 28 b5 2f fd, "partial" when they do not but contain 28 b5 or
\* 2f fd, "none" otherwise.
Headers == {"zstd", "partial", "none"}

\* What a server sends: n chunks of mb MB each and the header the first
\* chunk starts with; mb = 0 is a body of less than 1 MB.
Bodies ==
    {[n |-> k, mb |-> ChunkMB, header |-> "zstd"] : k \in 1..TotalChunks}
    \cup {[n |-> 1, mb |-> SmallChunkMB, header |-> h] : h \in Headers}
    \cup {[n |-> 1, mb |-> 0, header |-> "none"]}

FileOf(body) ==
    [got |-> 0, of |-> body.n, mb |-> body.mb, header |-> body.header, readable |-> TRUE]

Unlink(fs, path) == [q \in DOMAIN fs \ {path} |-> fs[q]]
Append1(fs, path) == [fs EXCEPT ![path].got = @ + 1]
\* shutil.move(temp_filepath, filepath)
Move(fs, from, to) == Unlink(WriteFile(fs, to, fs[from]), from)

SizeMB(c) == c.got * c.mb

\* filepath.suffix
Suffix(path) ==
    CASE path = TmpPath -> ".tmp"
      [] path = SamplePath -> ".pgn"
      [] OTHER -> ".zst"

\* DatasetManager._verify_file_integrity(filepath, expected_size_mb);
\* expected_mb = 0 stands for expected_size_mb=None.  The header is looked
\* at only when the suffix is .zst; a file that cannot be read passes when
\* it is larger than 100 MB.
verify_file_integrity(fs, path, expected_mb) ==
    /\ Exists(fs, path)
    /\ ~(expected_mb # 0 /\ 10 * SizeMB(fs[path]) < 9 * expected_mb)
    /\ SizeMB(fs[path]) >= 1
    /\ IF ~fs[path].readable THEN SizeMB(fs[path]) > 100
       ELSE IF Suffix(path) = ".zst"
       THEN fs[path].header # "none" \/ SizeMB(fs[path]) > 100
       ELSE TRUE

is_dataset_available_unverified(fs) ==
    Exists(fs, DatasetPath)

\* DatasetManager.is_dataset_available
is_dataset_available(fs) ==
    Exists(fs, DatasetPath) /\ verify_file_integrity(fs, DatasetPath, ExpectedMB)

\* slept is the last backoff_time the call has slept, 0 before any.
Download(kind, pc, url, attempt, result) ==
    [kind |-> kind, pc |-> pc, url |-> url, attempt |-> attempt, result |-> result,
     slept |-> 0]

backoff_time_constant(attempt) == 1

\* backoff_time = 2 ** attempt
backoff_time(attempt) == 2 ^ attempt

DlIdle(kind) == Download(kind, "idle", 0, 0, FALSE)
DlDone(kind, result) == Download(kind, "done", 0, 0, result)

StoreQuiet ==
    /\ UNCHANGED <<lmdb_env, lmdb, sqlite, position_cache, nCalls, thr,
                   arch, dataset_db, bg>>

StoreIdle ==
    /\ StoreQuiet
    /\ UNCHANGED <<call, ret>>

\* An entry point of the dataset interface and the identifier it was given.
EntryCall(op, name) == [op |-> op, name |-> name]

Value(v) == [raised |-> FALSE, value |-> v]

\* ---- the two routines that write to the final path -------------------
DirectKinds == {"archive", "downloader"}

\* if filepath.exists(): return True
DirectStart ==
    /\ dl.kind \in DirectKinds /\ dl.pc = "idle"
    /\ dl' = IF Exists(files, FinalPath(dl.kind))
             THEN DlDone(dl.kind, TRUE)
             ELSE Download(dl.kind, "request", 1, 0, FALSE)
    /\ UNCHANGED <<files, retry_count>>
    /\ StoreIdle

\* requests.get(...); response.raise_for_status(); open(filepath, 'wb')
DirectRequestOk(body) ==
    /\ dl.kind \in DirectKinds /\ dl.pc = "request"
    /\ files' = WriteFile(files, FinalPath(dl.kind), FileOf(body))
    /\ dl' = [dl EXCEPT !.pc = "stream"]
    /\ UNCHANGED retry_count
    /\ StoreIdle

\* f.write(chunk)
DirectChunk ==
    /\ dl.kind \in DirectKinds /\ dl.pc = "stream"
    /\ files[FinalPath(dl.kind)].got < files[FinalPath(dl.kind)].of
    /\ files' = Append1(files, FinalPath(dl.kind))
    /\ UNCHANGED <<dl, retry_count>>
    /\ StoreIdle

\* the response is exhausted: return True
DirectFinish ==
    /\ dl.kind \in DirectKinds /\ dl.pc = "stream"
    /\ files[FinalPath(dl.kind)].got = files[FinalPath(dl.kind)].of
    /\ dl' = DlDone(dl.kind, TRUE)
    /\ UNCHANGED <<files, retry_count>>
    /\ StoreIdle

\* except Exception: if filepath.exists(): filepath.unlink(); return False
DirectError ==
    /\ dl.kind \in DirectKinds
    /\ \/ dl.pc = "request"
       \/ /\ dl.pc = "stream"
          /\ files[FinalPath(dl.kind)].got < files[FinalPath(dl.kind)].of
    /\ files' = IF Exists(files, FinalPath(dl.kind))
                THEN Unlink(files, FinalPath(dl.kind)) ELSE files
    /\ dl' = DlDone(dl.kind, FALSE)
    /\ UNCHANGED retry_count
    /\ StoreIdle

\* KeyboardInterrupt (not an Exception, so the handler does not run) or the
\* process is killed: nothing is cleaned up.
DirectInterrupt ==
    /\ dl.kind \in DirectKinds
    /\ dl.pc \in {"request", "stream"}
    /\ dl' = [dl EXCEPT !.pc = "aborted"]
    /\ UNCHANGED <<files, retry_count>>
    /\ StoreIdle

\* ---- DatasetManager.download_dataset ---------------------------------
MgrStart(name) ==
    /\ dl.kind = "manager" /\ dl.pc = "idle"
    /\ call' = EntryCall("DatasetManager.download_dataset", name)
    /\ dl' = IF ~InCatalog(name) THEN DlDone("manager", FALSE)
             ELSE IF is_dataset_available(files) THEN DlDone("manager", TRUE)
             ELSE IF retry_count >= RetryLimit THEN DlDone("manager", FALSE)
             ELSE Download("manager", "attempt", 1, 0, FALSE)
    /\ UNCHANGED <<files, retry_count, ret>>
    /\ StoreQuiet

\* DatasetManager.get_dataset_status
DatasetStatus(fs, name) ==
    IF ~InCatalog(name) THEN [error |-> "Unknown dataset"]
    ELSE [name |-> name, size_mb |-> ExpectedMB,
          downloaded |-> Exists(fs, DatasetPath),
          verified |-> is_dataset_available(fs),
          retry_count |-> retry_count]

MgrGetDatasetStatus(name) ==
    /\ dl.kind = "manager" /\ dl.pc \in {"idle", "done"}
    /\ call' = EntryCall("DatasetManager.get_dataset_status", name)
    /\ ret' = Value(DatasetStatus(files, name))
    /\ UNCHANGED <<files, dl, retry_count>>
    /\ StoreQuiet

\* DataManager.download_dataset: self._ensure_basic_dataset(); return True
DmDownloadDataset(name) ==
    /\ dl.kind = "manager" /\ dl.pc = "idle"
    /\ call' = EntryCall("DataManager.download_dataset", name)
    /\ files' = ensure_basic_dataset(files)
    /\ ret' = Value(TRUE)
    /\ UNCHANGED <<dl, retry_count>>
    /\ StoreQuiet

\* DataManager.get_dataset_status
DmGetDatasetStatus(name) ==
    /\ dl.kind = "manager" /\ dl.pc = "idle"
    /\ call' = EntryCall("DataManager.get_dataset_status", name)
    /\ ret' = Value([position_specific |-> TRUE,
                     sample_data_available |-> Exists(files, SamplePath),
                     cached_positions |-> Cardinality(DOMAIN position_cache),
                     download_queue_length |-> 0])
    /\ UNCHANGED <<files, dl, retry_count>>
    /\ StoreQuiet

\* _download_with_retry returned False for the current URL: the next URL is
\* tried, or after the last one self._retry_count[dataset_name] += 1 and
\* download_dataset returns False.
AfterUrlFailed(fs) ==
    /\ files' = fs
    /\ IF dl.url < NumUrls
       THEN /\ dl' = Download("manager", "attempt", dl.url + 1, 0, FALSE)
            /\ UNCHANGED retry_count
       ELSE /\ dl' = DlDone("manager", FALSE)
            /\ retry_count' = retry_count + 1

\* except requests.exceptions.RequestException: time.sleep(backoff_time)
\* in the handler and then the next attempt, or after max_retries attempts
\* return False.  The temporary file is left.
AfterRequestException ==
    IF dl.attempt < MaxRetries - 1
    THEN /\ dl' = [dl EXCEPT !.pc = "sleep", !.slept = backoff_time(dl.attempt)]
         /\ UNCHANGED <<files, retry_count>>
    ELSE AfterUrlFailed(files)

\* time.sleep(backoff_time) returns: the next iteration of
\* `for attempt in range(max_retries)`
MgrWake ==
    /\ dl.kind = "manager" /\ dl.pc = "sleep"
    /\ dl' = [dl EXCEPT !.pc = "attempt", !.attempt = @ + 1]
    /\ UNCHANGED <<files, retry_count>>
    /\ StoreIdle

\* requests.get(...) or raise_for_status() raises a RequestException.
MgrRequestFails ==
    /\ dl.kind = "manager" /\ dl.pc = "attempt"
    /\ AfterRequestException
    /\ StoreIdle

\* the response arrives: open(temp_filepath, 'wb')
MgrRequestOk(body) ==
    /\ dl.kind = "manager" /\ dl.pc = "attempt"
    /\ files' = WriteFile(files, TmpPath, FileOf(body))
    /\ dl' = [dl EXCEPT !.pc = "stream"]
    /\ UNCHANGED retry_count
    /\ StoreIdle

MgrChunk ==
    /\ dl.kind = "manager" /\ dl.pc = "stream"
    /\ files[TmpPath].got < files[TmpPath].of
    /\ files' = Append1(files, TmpPath)
    /\ UNCHANGED <<dl, retry_count>>
    /\ StoreIdle

\* iter_content raises a RequestException (connection lost mid-stream).
MgrStreamFails ==
    /\ dl.kind = "manager" /\ dl.pc = "stream"
    /\ files[TmpPath].got < files[TmpPath].of
    /\ AfterRequestException
    /\ StoreIdle

\* except Exception (open(temp_filepath, 'wb') or a write fails): the
\* temporary file is removed when there is one and _download_with_retry
\* returns False.
MgrUnexpectedError ==
    /\ dl.kind = "manager"
    /\ \/ dl.pc = "attempt"
       \/ dl.pc = "stream" /\ files[TmpPath].got < files[TmpPath].of
    /\ AfterUrlFailed(IF Exists(files, TmpPath) THEN Unlink(files, TmpPath) ELSE files)
    /\ StoreIdle

\* the stream is complete: self._verify_file_integrity(temp_filepath); when
\* it fails the temporary file is removed and sys.exit(1) is called.
MgrVerify ==
    /\ dl.kind = "manager" /\ dl.pc = "stream"
    /\ files[TmpPath].got = files[TmpPath].of
    /\ IF verify_file_integrity(files, TmpPath, 0)
       THEN /\ dl' = [dl EXCEPT !.pc = "replace"]
            /\ UNCHANGED files
       ELSE /\ files' = Unlink(files, TmpPath)
            /\ dl' = [dl EXCEPT !.pc = "exited"]
    /\ UNCHANGED retry_count
    /\ StoreIdle

\* if filepath.exists(): filepath.unlink()
MgrReplace ==
    /\ dl.kind = "manager" /\ dl.pc = "replace"
    /\ files' = IF Exists(files, DatasetPath) THEN Unlink(files, DatasetPath) ELSE files
    /\ dl' = [dl EXCEPT !.pc = "move"]
    /\ UNCHANGED retry_count
    /\ StoreIdle

\* shutil.move(temp_filepath, filepath)
MgrMove ==
    /\ dl.kind = "manager" /\ dl.pc = "move"
    /\ files' = Move(files, TmpPath, DatasetPath)
    /\ dl' = [dl EXCEPT !.pc = "check"]
    /\ UNCHANGED retry_count
    /\ StoreIdle

\* filepath.stat(), self._calculate_checksum(filepath) and return True:
\* the last statements inside the try block of _download_with_retry
MgrCheck ==
    /\ dl.kind = "manager" /\ dl.pc = "check"
    /\ dl' = [dl EXCEPT !.pc = "moved"]
    /\ UNCHANGED <<files, retry_count>>
    /\ StoreIdle

\* download_dataset: self._verify_file_integrity(filepath, source.get("size_mb"))
MgrFinalVerify ==
    /\ dl.kind = "manager" /\ dl.pc = "moved"
    /\ IF verify_file_integrity(files, DatasetPath, ExpectedMB)
       THEN /\ dl' = DlDone("manager", TRUE)
            /\ UNCHANGED files
       ELSE /\ dl' = DlDone("manager", FALSE)
            /\ files' = Unlink(files, DatasetPath)
    /\ UNCHANGED retry_count
    /\ StoreIdle

\* The positions inside the try block of _download_with_retry.
InTry == {"attempt", "stream", "replace", "move", "check"}

\* KeyboardInterrupt.  Inside the try block of _download_with_retry the
\* clause except KeyboardInterrupt removes the temporary file when there is
\* one and calls sys.exit(1).  During time.sleep, which runs inside the
\* handler of RequestException, and during the final verification of
\* download_dataset no clause applies: the interrupt leaves download_dataset
\* uncaught and nothing is cleaned up.
MgrInterrupt ==
    /\ dl.kind = "manager" /\ dl.pc \in InTry \cup {"sleep", "moved"}
    /\ IF dl.pc \in InTry
       THEN /\ files' = IF Exists(files, TmpPath) THEN Unlink(files, TmpPath) ELSE files
            /\ dl' = [dl EXCEPT !.pc = "exited"]
       ELSE /\ files' = files
            /\ dl' = [dl EXCEPT !.pc = "aborted"]
    /\ UNCHANGED retry_count
    /\ StoreIdle

\* KeyboardInterrupt in the first attempt of a _download_with_retry call,
\* before temp_filepath = filepath.with_suffix(...) has run: the clause
\* except KeyboardInterrupt evaluates temp_filepath.exists() on an unbound
\* name.  The UnboundLocalError leaves _download_with_retry and is caught
\* by the except Exception of download_dataset:
\* self._retry_count[dataset_name] += 1; return False.
MgrInterruptUnbound ==
    /\ dl.kind = "manager" /\ dl.pc = "attempt" /\ dl.attempt = 0
    /\ dl' = DlDone("manager", FALSE)
    /\ retry_count' = retry_count + 1
    /\ UNCHANGED files
    /\ StoreIdle

\* the process is killed: no handler runs
MgrKill ==
    /\ dl.kind = "manager" /\ dl.pc \in InTry \cup {"sleep", "moved"}
    /\ dl' = [dl EXCEPT !.pc = "aborted"]
    /\ UNCHANGED <<files, retry_count>>
    /\ StoreIdle

\* DatasetManager.cleanup_corrupted_datasets: a file of the catalog that
\* exists and fails self._verify_file_integrity(filepath) is removed.
cleanup_corrupted_datasets(fs) ==
    IF Exists(fs, DatasetPath) /\ ~verify_file_integrity(fs, DatasetPath, 0)
    THEN Unlink(fs, DatasetPath)
    ELSE fs

MgrCleanupCorrupted ==
    /\ dl.kind = "manager" /\ dl.pc = "idle"
    /\ call' = EntryCall("DatasetManager.cleanup_corrupted_datasets", DatasetName)
    /\ ret' = Value(TRUE)
    /\ files' = cleanup_corrupted_datasets(files)
    /\ UNCHANGED <<dl, retry_count>>
    /\ StoreQuiet

\* the call has returned; the next call may start
DlReturn ==
    /\ dl.pc = "done"
    /\ dl' = DlIdle(dl.kind)
    /\ UNCHANGED <<files, retry_count>>
    /\ StoreIdle

\* The files after the constructor: DataManager.__init__, which owns the
\* DatasetManager and the ArchiveDownloader, writes the sample file when it
\* does not exist (_initialize_datasets); DatasetDownloader stands alone.
Constructor(kind, fs) ==
    IF kind = "downloader" THEN fs ELSE ensure_basic_dataset(fs)

\* the process has ended; a new process starts with the files as they are
\* and the retry counts of DatasetManager.__init__
DlRestart ==
    /\ dl.pc \in {"exited", "aborted"}
    /\ dl' = DlIdle(dl.kind)
    /\ retry_count' = 0
    /\ files' = Constructor(dl.kind, files)
    /\ StoreIdle

\* Each behaviour follows the calls of one of the three routines, from the
\* first start in an empty working directory.
InitDownload ==
    /\ InitStore
    /\ NoThreads
    /\ NoArchive
    /\ NoBackground
    /\ dl \in {DlIdle(kind) : kind \in DirectKinds \cup {"manager"}}
    /\ files = Constructor(dl.kind, EmptyFn)
    /\ retry_count = 0

NextDownload ==
    \/ DirectStart
    \/ \E body \in Bodies : DirectRequestOk(body)
    \/ DirectChunk
    \/ DirectFinish
    \/ DirectError
    \/ DirectInterrupt
    \/ \E name \in DatasetNames :
          \/ MgrStart(name)
          \/ MgrGetDatasetStatus(name)
          \/ DmDownloadDataset(name)
          \/ DmGetDatasetStatus(name)
    \/ MgrRequestFails
    \/ MgrWake
    \/ \E body \in Bodies : MgrRequestOk(body)
    \/ MgrChunk
    \/ MgrStreamFails
    \/ MgrUnexpectedError
    \/ MgrVerify
    \/ MgrReplace
    \/ MgrMove
    \/ MgrCheck
    \/ MgrFinalVerify
    \/ MgrInterrupt
    \/ MgrInterruptUnbound
    \/ MgrKill
    \/ MgrCleanupCorrupted
    \/ DlReturn
    \/ DlRestart

SpecDownload == InitDownload /\ [][NextDownload]_vars

Partial(c) == c.got < c.of

\* C5: once a download call has ended (returned, exited, was interrupted or
\* killed), no final archive path holds a partial file.
C5_NoPartialFileAtFinalPath ==
    dl.pc \in {"done", "exited", "aborted"} =>
        \A path \in {DatasetPath, ArchivePath} :
            Exists(files, path) => ~Partial(files[path])

\* A call of one of the four dataset entry points with an identifier that is
\* not in the catalog.
UnknownDownload ==
    MgrStart(UnknownName) \/ DmDownloadDataset(UnknownName)

UnknownStatus ==
    MgrGetDatasetStatus(UnknownName) \/ DmGetDatasetStatus(UnknownName)

DownloadRefused ==
    IF call'.op = "DatasetManager.download_dataset"
    THEN dl'.pc = "done" /\ ~dl'.result
    ELSE ~ret'.raised /\ ret'.value = FALSE

\* C11: for an identifier outside the catalog, download_dataset returns
\* false and changes neither files nor retry counts, and get_dataset_status
\* returns an error indicator without raising, at the entry points of
\* DatasetManager and of DataManager.
C11_UnknownDatasetRefused ==
    [][/\ UnknownDownload =>
            (DownloadRefused /\ files' = files /\ retry_count' = retry_count)
       /\ UnknownStatus =>
            (~ret'.raised /\ "error" \in DOMAIN ret'.value)]_vars

\* An attempt of _download_with_retry fails: the request or the stream
\* raises a RequestException, or the completed file fails verification.
IntegrityFailure ==
    /\ dl.kind = "manager" /\ dl.pc = "stream"
    /\ files[TmpPath].got = files[TmpPath].of
    /\ ~verify_file_integrity(files, TmpPath, 0)
    /\ MgrVerify

NetworkFailure == MgrRequestFails \/ MgrStreamFails

\* C14: a download attempt that fails verification or hits a network error
\* is a failed attempt only: the corrupt file is deleted, the call goes on
\* to the next attempt or URL or returns, and the process is not
\* terminated.
C14_FailedAttemptNotFatal ==
    [][/\ IntegrityFailure =>
            (~Exists(files', TmpPath) /\ dl'.pc \in {"attempt", "done"})
       /\ NetworkFailure => dl'.pc \in {"sleep", "attempt", "done"}]_vars

\* An attempt that had opened the temporary file ends without success.
AttemptEndsFailed ==
    /\ dl.kind = "manager" /\ dl.pc = "stream"
    /\ dl'.pc \in {"sleep", "attempt", "done", "exited"}

\* download_dataset returns false or is interrupted.
DownloadEndsFailed ==
    \/ /\ dl.kind = "manager" /\ dl.pc \in {"attempt", "stream"}
       /\ dl'.pc \in {"done", "exited"}
    \/ MgrInterrupt

\* C15: when a download attempt ends without success its temporary file
\* has been deleted, and no temporary file is left when download_dataset
\* returns false or is interrupted.
C15_TempFileRemovedOnFailure ==
    [][(AttemptEndsFailed \/ DownloadEndsFailed) => ~Exists(files', TmpPath)]_vars

\* The archive file exists, has at least 90% of its expected size and is a
\* zstd file (or is larger than 100 MB).
Verified(fs) ==
    /\ Exists(fs, DatasetPath)
    /\ 10 * SizeMB(fs[DatasetPath]) >= 9 * ExpectedMB
    /\ (fs[DatasetPath].header = "zstd" \/ SizeMB(fs[DatasetPath]) > 100)

StatusAfterSuccess ==
    /\ dl.kind = "manager" /\ dl.pc = "done" /\ dl.result
    /\ MgrGetDatasetStatus(DatasetName)

\* C17: is_dataset_available is true only of a file that exists and passes
\* verification against its expected size; DatasetManager.download_dataset
\* returns true only when that is so at return; get_dataset_status called
\* right after a successful download reports downloaded and verified.
C17_AvailableOnlyIfVerified ==
    [][/\ is_dataset_available(files') => Verified(files')
       /\ (dl'.kind = "manager" /\ dl'.pc = "done" /\ dl'.result) => Verified(files')
       /\ StatusAfterSuccess => (ret'.value.downloaded /\ ret'.value.verified)]_vars

C17_Witness ==
    /\ dl.kind = "manager" /\ dl.pc = "done" /\ dl.result
    /\ call = EntryCall("DatasetManager.get_dataset_status", DatasetName)
    /\ ret.value.verified
    /\ files[DatasetPath].got = TotalChunks

(***************************************************************************)
(* The archive processors (specification SpecArchive).                     *)
(*   "archive": ArchiveDownloader.process_archive, _process_pgn_file and   *)
(*              parse_game_lines, feeding CacheManager.store_game_result;  *)
(*   "dataset": DatasetProcessor.process_dataset, _process_game and        *)
(*              _save_statistics, writing the table position_stats.        *)
(* An archive is a sequence of game records, each starting at an [Event    *)
(* line.  A record is its Result tag ("" when it has none) and the tokens  *)
(* of its move text in SAN; "??" is text that is no move.                  *)
(***************************************************************************)
MaxRecords == 2

Record(result, moves) == [result |-> result, moves |-> moves]

RecordInputs ==
    {Record("1-0", <<"e4">>), Record("0-1", <<"e4", "e5">>),
     Record("*", <<"e4">>), Record("", <<"e4">>), Record("1-0", <<"??">>),
     Record("1-0", <<"e4", "??", "e5">>)}

RECURSIVE SeqsUpTo(_, _)
SeqsUpTo(S, n) ==
    IF n = 0 THEN {<<>>}
    ELSE SeqsUpTo(S, n - 1) \cup {Append(q, x) : q \in {r \in SeqsUpTo(S, n - 1) : Len(r) = n - 1}, x \in S}

ArchiveInputs == SeqsUpTo(RecordInputs, MaxRecords)

\* board.parse_san(token) on the boards a replay from the initial position
\* goes through: the move in UCI, or "" when the token is no legal move.
ParseSan(board, token) ==
    CASE board = "start" /\ token = "e4" -> "e2e4"
      [] board = "start" /\ token = "Nf3" -> "g1f3"
      [] board = "after e4" /\ token = "e5" -> "e7e5"
      [] OTHER -> ""

\* board.push(move)
Push(board, uci) ==
    CASE board = "start" /\ uci = "e2e4" -> "after e4"
      [] board = "start" /\ uci = "g1f3" -> "after Nf3"
      [] OTHER -> "after e4 e5"

\* The loop of parse_game_lines over game.mainline_moves(): one GameResult
\* per ply, keyed by the normalized position before the move.  The main
\* line that read_game builds ends before the first token that is no legal
\* move.
RECURSIVE GameResultsFrom(_, _, _, _)
GameResultsFrom(board, moves, result, network) ==
    IF moves = <<>> \/ ParseSan(board, Head(moves)) = "" THEN <<>>
    ELSE LET uci == ParseSan(board, Head(moves))
         IN <<GameResult(normalize_fen(Fen(board, 0, 1)), uci, result, network, ArchiveFile)>>
            \o GameResultsFrom(Push(board, uci), Tail(moves), result, network)

\* chess.pgn.read_game(handle) begins with handle.readline().
\* parse_game_lines hands it pgn_text.splitlines(), a list: a list has no
\* readline, so the call raises AttributeError.
HasReadlineAlways(handle) == TRUE

HasReadline(handle) == handle = "file"

\* parse_game_lines: the set holding the GameResult it returns, empty for
\* None.  The exception of read_game is caught: return None.
parse_game_lines(rec, network) ==
    IF ~HasReadline("list") THEN {}
    ELSE IF rec.result \in {"", "*"} THEN {}
    ELSE LET game_results == GameResultsFrom("start", rec.moves, rec.result, network)
         IN IF game_results = <<>> THEN {} ELSE {game_results[1]}

\* DatasetProcessor._process_game: the statistics after the tokens of one
\* game.  A token that is no legal move is skipped and the loop continues.
DatasetResult(rec) == IF rec.result = "" THEN "1/2-1/2" ELSE rec.result

\* A row of the table position_stats, PRIMARY KEY (fen, move, dataset).
\* last_updated is the reading of time.time() at the INSERT; in an entry of
\* the dictionary position_stats, which has no such field, it is 0.
StatRow(fen, move, wins, losses, draws, dataset, last_updated) ==
    [fen |-> fen, move |-> move, wins |-> wins, losses |-> losses,
     draws |-> draws, dataset |-> dataset, last_updated |-> last_updated]

SameStatKey(a, b) == a.fen = b.fen /\ a.move = b.move /\ a.dataset = b.dataset

Credit(stats, fen, move, result, dataset) ==
    LET old == {r \in stats : r.fen = fen /\ r.move = move /\ r.dataset = dataset}
        o == IF old = {} THEN StatRow(fen, move, 0, 0, 0, dataset, 0)
             ELSE CHOOSE r \in old : TRUE
        new == CASE result = "1-0" -> [o EXCEPT !.wins = @ + 1]
                 [] result = "0-1" -> [o EXCEPT !.losses = @ + 1]
                 [] OTHER -> [o EXCEPT !.draws = @ + 1]
    IN (stats \ old) \cup {new}

RECURSIVE process_game(_, _, _, _, _)
process_game(stats, board, moves, result, dataset) ==
    IF moves = <<>> THEN stats
    ELSE LET uci == ParseSan(board, Head(moves))
         IN IF uci = ""
            THEN process_game(stats, board, Tail(moves), result, dataset)
            ELSE process_game(Credit(stats, normalize_fen(Fen(board, 0, 1)), uci, result, dataset),
                              Push(board, uci), Tail(moves), result, dataset)

\* The readings of time.time() in one call of _save_statistics that starts
\* at time now: one reading for every entry, none earlier than now and, in
\* the model, none later than one tick after it.
Readings(stats, now) == [stats -> now..(now + 1)]

save_statistics_additive(table, stats, time) ==
    {r \in table : \A n \in stats : ~SameStatKey(r, n)}
    \cup {LET old == {r \in table : SameStatKey(r, n)}
          IN IF old = {} THEN [n EXCEPT !.last_updated = time[n]]
             ELSE LET o == CHOOSE r \in old : TRUE
                  IN [n EXCEPT !.wins = @ + o.wins, !.losses = @ + o.losses,
                               !.draws = @ + o.draws,
                               !.last_updated = time[n]] : n \in stats}

\* DatasetProcessor._save_statistics: INSERT OR REPLACE of every key, with
\* last_updated = time.time(); time[n] is the reading for the entry n.
save_statistics(table, stats, time) ==
    {r \in table : \A n \in stats : ~SameStatKey(r, n)}
    \cup {[n EXCEPT !.last_updated = time[n]] : n \in stats}

\* process_archive: the opener chosen from the end of the file name; a name
\* with none of the four compressed endings is opened as plain text.
ArchiveNames == {"games.pgn.zst", "games.dat"}

open_method(filename) ==
    CASE filename = "games.pgn.zst" -> "zstd.open"
      [] filename = "games.pgn.gz" -> "gzip.open"
      [] filename = "games.pgn.bz2" -> "bz2.open"
      [] filename = "games.pgn.xz" -> "lzma.open"
      [] OTHER -> "open"

MaxRuns == 2

\* A run of a processor over a file: recs are the game records the opened
\* file yields to _process_pgn_file; runs counts the calls of
\* process_dataset on the file; now is the time on the clock time.time()
\* reads, 0 being the time of the rows that were in the table before.
Run(proc, filename, recs) ==
    [proc |-> proc, filename |-> filename, opened |-> open_method(filename),
     recs |-> recs, i |-> 1, processed_games |-> 0,
     updates |-> <<>>, position_stats |-> {}, pc |-> "loop", runs |-> 1,
     now |-> 1]

DlIdleHere == UNCHANGED <<thr, files, dl, retry_count, bg>>

\* _process_pgn_file: the record that ends at the next [Event line or at the
\* end of the file is parsed and, when parse_game_lines returns a result,
\* stored and counted.
ArchiveRecord ==
    /\ arch.proc = "archive" /\ arch.pc = "loop"
    /\ arch.i <= Len(arch.recs)
    /\ LET game_result == parse_game_lines(arch.recs[arch.i], RealTag)
       IN IF game_result = {}
          THEN /\ arch' = [arch EXCEPT !.i = @ + 1]
               /\ UNCHANGED <<sqlite, lmdb>>
          ELSE LET gr == CHOOSE g \in game_result : TRUE
               IN /\ arch' = [arch EXCEPT !.i = @ + 1,
                                          !.processed_games = @ + 1,
                                          !.updates = Append(@, gr)]
                  /\ IF ~lmdb_env
                     THEN /\ sqlite' = StoreGameResultSqlite(sqlite, gr)
                          /\ UNCHANGED lmdb
                     ELSE /\ lmdb' = StoreGameResultLmdb(lmdb, gr)
                          /\ UNCHANGED sqlite
    /\ UNCHANGED <<lmdb_env, position_cache, call, ret, nCalls, dataset_db>>
    /\ DlIdleHere

\* process_archive: return processed_games
ArchiveReturn ==
    /\ arch.proc = "archive" /\ arch.pc = "loop"
    /\ arch.i > Len(arch.recs)
    /\ arch' = [arch EXCEPT !.pc = "done"]
    /\ UNCHANGED <<lmdb_env, lmdb, sqlite, position_cache, call, ret, nCalls, dataset_db>>
    /\ DlIdleHere

\* process_dataset: self._process_game(...); processed_games += 1
DatasetRecord ==
    /\ arch.proc = "dataset" /\ arch.pc = "loop"
    /\ arch.i <= Len(arch.recs)
    /\ arch' = [arch EXCEPT
                  !.i = @ + 1,
                  !.processed_games = @ + 1,
                  !.position_stats =
                      process_game(@, "start", arch.recs[arch.i].moves,
                                   DatasetResult(arch.recs[arch.i]), DatasetName)]
    /\ UNCHANGED <<lmdb_env, lmdb, sqlite, position_cache, call, ret, nCalls, dataset_db>>
    /\ DlIdleHere

\* process_dataset: self._save_statistics(...); return processed_games
DatasetSave ==
    /\ arch.proc = "dataset" /\ arch.pc = "loop"
    /\ arch.i > Len(arch.recs)
    /\ \E time \in Readings(arch.position_stats, arch.now) :
          dataset_db' = save_statistics(dataset_db, arch.position_stats, time)
    /\ arch' = [arch EXCEPT !.pc = "done", !.now = @ + 1]
    /\ UNCHANGED <<lmdb_env, lmdb, sqlite, position_cache, call, ret, nCalls>>
    /\ DlIdleHere

\* process_dataset is called again on the same file, later than the save
\* of the run before: position_stats starts as a new, empty dictionary.
DatasetRerun ==
    /\ arch.proc = "dataset" /\ arch.pc = "done"
    /\ arch.runs < MaxRuns
    /\ arch' = [arch EXCEPT !.i = 1, !.processed_games = 0, !.position_stats = {},
                            !.pc = "loop", !.runs = @ + 1, !.now = @ + 1]
    /\ UNCHANGED <<lmdb_env, lmdb, sqlite, position_cache, call, ret, nCalls, dataset_db>>
    /\ DlIdleHere

\* The rows an earlier run over another dataset has left in position_stats.
OtherDataset == "lichess_2023_01"

OtherDatasetRows ==
    {StatRow(normalize_fen(StartFen), "e2e4", 1, 0, 0, OtherDataset, 0)}

\* The path of the file a run reads: process_dataset reads
\* cache/datasets/<dataset_name>.pgn.zst, process_archive the path it is
\* given.
RunPath(run) ==
    IF run.proc = "dataset" THEN DatasetPath
    ELSE IF run.filename = "games.pgn.zst" THEN ArchivePath
    ELSE "cache/archives/games.dat"

\* The working directory of a run.  The file to be read is on disk; the
\* ArchiveDownloader belongs to a DataManager, whose constructor has written
\* the sample file, and the DatasetProcessor stands alone.
RunFiles(run) ==
    WriteFile(IF run.proc = "archive" THEN ensure_basic_dataset(EmptyFn) ELSE EmptyFn,
              RunPath(run),
              [got |-> 1, of |-> 1, mb |-> 0,
               header |-> IF run.opened = "zstd.open" THEN "zstd" ELSE "none",
               readable |-> TRUE])

InitArchive ==
    /\ InitStore
    /\ NoThreads
    /\ NoBackground
    /\ arch \in {Run("archive", filename, recs) : filename \in ArchiveNames, recs \in ArchiveInputs}
                \cup {Run("dataset", "games.pgn.zst", recs) : recs \in ArchiveInputs}
    /\ files = RunFiles(arch)
    /\ dl = EmptyFn
    /\ retry_count = 0
    /\ dataset_db \in {{}, OtherDatasetRows}

NextArchive ==
    \/ ArchiveRecord
    \/ ArchiveReturn
    \/ DatasetRecord
    \/ DatasetSave
    \/ DatasetRerun

SpecArchive == InitArchive /\ [][NextArchive]_vars

HasOutcome(rec) == rec.result \in Results
Parseable(rec) == GameResultsFrom("start", rec.moves, "", "") # <<>>
                  /\ Len(GameResultsFrom("start", rec.moves, "", "")) = Len(rec.moves)
ValidRecord(rec) == HasOutcome(rec) /\ Parseable(rec)
CorruptRecord(rec) == ~Parseable(rec)

OneCorruptAmongValid(recs) ==
    /\ Cardinality({i \in 1..Len(recs) : CorruptRecord(recs[i])}) = 1
    /\ \A i \in 1..Len(recs) : CorruptRecord(recs[i]) \/ ValidRecord(recs[i])

\* C6: processing an archive whose records are all valid except one that
\* cannot be parsed returns the number of valid records.
C6_CountsValidRecords ==
    (arch.pc = "done" /\ OneCorruptAmongValid(arch.recs)) =>
        arch.processed_games = Len(arch.recs) - 1

RECURSIVE ExpectedUpdates(_)
ExpectedUpdates(recs) ==
    IF recs = <<>> THEN <<>>
    ELSE (IF HasOutcome(Head(recs))
          THEN GameResultsFrom("start", Head(recs).moves, Head(recs).result, RealTag)
          ELSE <<>>)
         \o ExpectedUpdates(Tail(recs))

\* C7: when process_archive has returned, the merge-updates it made are, in
\* order, one per ply of every game record that has an outcome, keyed by the
\* normalized position before the move and the move, tagged with the game's
\* result.
C7_OneUpdatePerPly ==
    (arch.proc = "archive" /\ arch.pc = "done") =>
        arch.updates = ExpectedUpdates(arch.recs)

(***************************************************************************)
(* The background ingestion worker (specification SpecWorker).             *)
(* DataManager.fetch_position_data queues a position and starts the        *)
(* background worker when self._downloading is false; the worker drains    *)
(* the queue with download_position_specific_data.  bg holds               *)
(*   download_queue, downloading : self._download_queue, self._downloading *)
(*   callers : caller thread -> its position in fetch_position_data        *)
(*   workers : the worker threads started so far                           *)
(* The two blocks under self._lock are single steps.                       *)
(***************************************************************************)
NCallers == 2
MaxWorkers == 2
MaxFetches == 1

Callers == 1..NCallers

QueueInputs == {TacticFen, BadFen}

Caller(pc, n) == [pc |-> pc, n |-> n]

\* A worker thread: its position in background_worker and in the
\* download_position_specific_data call it makes, the position it popped,
\* and the local list `stats` of the get_position_stats call in progress.
Worker(pc, fen) == [pc |-> pc, fen |-> fen, stats |-> <<>>]

\* DataManager.download_position_specific_data(fen, network): the value it
\* returns and the store and cache it leaves.
download_position_specific_data(table, cache, fen, network, jit) ==
    IF ~Parses(fen) THEN [value |-> FALSE, sqlite |-> table, position_cache |-> cache]
    ELSE IF LegalMoves(fen.board) = <<>>
    THEN [value |-> TRUE, sqlite |-> table, position_cache |-> cache]
    ELSE LET r == get_position_stats(table, cache, fen, network, 0, jit)
             stats == fetch_position_specific_data(fen, LegalMoves(fen.board), network, jit)
         IN IF r.ret.list # <<>>
            THEN [value |-> TRUE, sqlite |-> r.sqlite, position_cache |-> r.position_cache]
            ELSE [value |-> stats # <<>>, sqlite |-> StoreAll(r.sqlite, stats),
                  position_cache |-> r.position_cache]

WorkerIdle ==
    UNCHANGED <<lmdb_env, lmdb, call, ret, nCalls, thr, files, dl, retry_count,
                arch, dataset_db>>

\* fetch_position_data: if fen not in self._download_queue:
\* self._download_queue.append(fen)
enqueue_always(queue, fen) == Append(queue, fen)

enqueue(queue, fen) ==
    IF \E i \in 1..Len(queue) : queue[i] = fen THEN queue ELSE Append(queue, fen)

\* fetch_position_data: the block under self._lock
Fetch(c, fen) ==
    /\ bg.callers[c].pc = "idle"
    /\ bg.callers[c].n < MaxFetches
    /\ bg' = [bg EXCEPT
                !.download_queue = enqueue(@, fen),
                !.callers[c] = Caller("check", @.n + 1)]
    /\ UNCHANGED <<sqlite, position_cache>>
    /\ WorkerIdle

\* fetch_position_data: if not self._downloading: self._start_background_processing()
FetchCheck(c) ==
    /\ bg.callers[c].pc = "check"
    /\ bg' = [bg EXCEPT !.callers[c].pc = IF bg.downloading THEN "idle" ELSE "start"]
    /\ UNCHANGED <<sqlite, position_cache>>
    /\ WorkerIdle

\* _start_background_processing: if self._downloading: return
StartCheck(c) ==
    /\ bg.callers[c].pc = "start"
    /\ bg' = [bg EXCEPT !.callers[c].pc = IF bg.downloading THEN "idle" ELSE "set"]
    /\ UNCHANGED <<sqlite, position_cache>>
    /\ WorkerIdle

\* _start_background_processing: self._downloading = True; thread.start()
StartThread(c) ==
    /\ bg.callers[c].pc = "set"
    /\ Len(bg.workers) < MaxWorkers
    /\ bg' = [bg EXCEPT !.downloading = TRUE,
                        !.workers = Append(@, Worker("while", StartFen)),
                        !.callers[c].pc = "idle"]
    /\ UNCHANGED <<sqlite, position_cache>>
    /\ WorkerIdle

\* background_worker: while self._download_queue:
WorkerWhile(w) ==
    /\ w \in 1..Len(bg.workers)
    /\ bg.workers[w].pc = "while"
    /\ bg' = [bg EXCEPT !.workers[w].pc = IF bg.download_queue # <<>> THEN "pop" ELSE "finally"]
    /\ UNCHANGED <<sqlite, position_cache>>
    /\ WorkerIdle

\* background_worker: with self._lock: if not self._download_queue: break;
\* fen = self._download_queue.pop(0)
WorkerPop(w) ==
    /\ w \in 1..Len(bg.workers)
    /\ bg.workers[w].pc = "pop"
    /\ bg' = IF bg.download_queue = <<>>
             THEN [bg EXCEPT !.workers[w].pc = "finally"]
             ELSE [bg EXCEPT !.workers[w] = Worker("process", Head(bg.download_queue)),
                             !.download_queue = Tail(@)]
    /\ UNCHANGED <<sqlite, position_cache>>
    /\ WorkerIdle

\* background_worker: self.download_position_specific_data(fen), which runs
\* without the lock: every access to the table or to the result cache is a
\* step of its own.
\* WorkerProcess: chess.Board(fen) and the legal moves; a description that
\* does not parse or a position without legal moves ends the call.
\* Otherwise get_position_stats(fen) looks the key up in the result cache: a
\* cached list ends the call (a list cached under min_games 0 is never
\* empty, so download_position_specific_data returns True on it).
WorkerProcess(w) ==
    /\ w \in 1..Len(bg.workers)
    /\ bg.workers[w].pc = "process"
    /\ LET fen == bg.workers[w].fen
           key == CacheKey(normalize_fen(fen), NoNetwork, 0)
       IN bg' = IF \/ ~Parses(fen)
                   \/ LegalMoves(fen.board) = <<>>
                   \/ key \in DOMAIN position_cache
                THEN [bg EXCEPT !.workers[w] = Worker("while", StartFen)]
                ELSE [bg EXCEPT !.workers[w].pc = "query"]
    /\ UNCHANGED <<sqlite, position_cache>>
    /\ WorkerIdle

\* get_position_stats: stats = get_all_moves_for_position(normalized_fen, None)
WorkerQuery(w) ==
    /\ w \in 1..Len(bg.workers)
    /\ bg.workers[w].pc = "query"
    /\ LET stored == get_all_moves_for_position(sqlite, normalize_fen(bg.workers[w].fen),
                                                NoNetwork)
       IN bg' = IF stored # <<>>
                THEN [bg EXCEPT !.workers[w].pc = "cache", !.workers[w].stats = stored]
                ELSE [bg EXCEPT !.workers[w].pc = "write"]
    /\ UNCHANGED <<sqlite, position_cache>>
    /\ WorkerIdle

\* _fetch_position_specific_data: one update_move_stats(stat) of the loop
\* `for stat in stats`, which commits one row.  The draws of the row are
\* taken here: they are independent of everything else and nothing has seen
\* them before the row is written.
WorkerWriteRow(w) ==
    /\ w \in 1..Len(bg.workers)
    /\ bg.workers[w].pc = "write"
    /\ LET nfen == normalize_fen(bg.workers[w].fen)
           legal_moves == LegalMoves(nfen.board)
           i == Len(bg.workers[w].stats) + 1
       IN \E jw \in JitterVals, jl \in JitterVals :
             LET stat == generate_sample_stat_for_move(nfen, legal_moves[i], NoNetwork, jw, jl)
             IN /\ sqlite' = update_move_stats(sqlite, stat)
                /\ bg' = [bg EXCEPT !.workers[w].stats = Append(@, stat),
                                    !.workers[w].pc =
                                        IF i = Len(legal_moves) THEN "cache" ELSE "write"]
    /\ UNCHANGED position_cache
    /\ WorkerIdle

\* get_position_stats: self._position_cache[cache_key] = stats; the list is
\* not empty, so download_position_specific_data returns True.
WorkerCache(w) ==
    /\ w \in 1..Len(bg.workers)
    /\ bg.workers[w].pc = "cache"
    /\ position_cache' = CacheWith(position_cache,
                                   CacheKey(normalize_fen(bg.workers[w].fen), NoNetwork, 0),
                                   bg.workers[w].stats)
    /\ bg' = [bg EXCEPT !.workers[w] = Worker("while", StartFen)]
    /\ UNCHANGED sqlite
    /\ WorkerIdle

\* background_worker: finally: self._downloading = False; the thread ends
WorkerFinally(w) ==
    /\ w \in 1..Len(bg.workers)
    /\ bg.workers[w].pc = "finally"
    /\ bg' = [bg EXCEPT !.downloading = FALSE, !.workers[w].pc = "dead"]
    /\ UNCHANGED <<sqlite, position_cache>>
    /\ WorkerIdle

InitWorker ==
    /\ InitStore
    /\ NoThreads
    /\ InitDatasets
    /\ NoArchive
    /\ bg = [download_queue |-> <<>>, downloading |-> FALSE,
             callers |-> [c \in Callers |-> Caller("idle", 0)],
             workers |-> <<>>]

NextWorker ==
    \/ \E c \in Callers, fen \in QueueInputs : Fetch(c, fen)
    \/ \E c \in Callers : FetchCheck(c)
    \/ \E c \in Callers : StartCheck(c)
    \/ \E c \in Callers : StartThread(c)
    \/ \E w \in 1..MaxWorkers : WorkerWhile(w)
    \/ \E w \in 1..MaxWorkers : WorkerPop(w)
    \/ \E w \in 1..MaxWorkers : WorkerProcess(w)
    \/ \E w \in 1..MaxWorkers : WorkerQuery(w)
    \/ \E w \in 1..MaxWorkers : WorkerWriteRow(w)
    \/ \E w \in 1..MaxWorkers : WorkerCache(w)
    \/ \E w \in 1..MaxWorkers : WorkerFinally(w)

SpecWorker == InitWorker /\ [][NextWorker]_vars

\* SpecQueue: the same callers and workers on positions the worker needs no
\* data for (no legal moves, or a description that does not parse), so that
\* download_position_specific_data ends at its first step.
QuietQueueInputs == {MateFen, BadFen}

NextQueue ==
    \/ \E c \in Callers, fen \in QuietQueueInputs : Fetch(c, fen)
    \/ \E c \in Callers : FetchCheck(c)
    \/ \E c \in Callers : StartCheck(c)
    \/ \E c \in Callers : StartThread(c)
    \/ \E w \in 1..MaxWorkers : WorkerWhile(w)
    \/ \E w \in 1..MaxWorkers : WorkerPop(w)
    \/ \E w \in 1..MaxWorkers : WorkerProcess(w)
    \/ \E w \in 1..MaxWorkers : WorkerFinally(w)

SpecQueue == InitWorker /\ [][NextQueue]_vars

Alive == {w \in 1..Len(bg.workers) : bg.workers[w].pc # "dead"}

\* C12: in every interleaving of fetch_position_data calls, at most one
\* background worker is alive.
C12_AtMostOneWorker ==
    Cardinality(Alive) <= 1

(***************************************************************************)
(* Concurrent callers of DatasetManager.download_dataset for one dataset   *)
(* (specification SpecDlConc).  DatasetManager creates self.lock but no    *)
(* method takes it.  Each caller runs the steps of SpecDownload's manager  *)
(* routine, one step for every access to the file system.  thr[t] is the   *)
(* caller's position: the URL and attempt it is at, the chunks it has      *)
(* written (pos) out of those of its response (of), the chunk size and the *)
(* header of its response, and where the file it has opened is now (at):   *)
(* under the temporary path ("tmp"), under the final path ("final") after  *)
(* another caller moved it, or under no name ("gone") after it was removed *)
(* or replaced.  Both callers use the same temporary path; opening an      *)
(* existing path for writing truncates the file that is there.  A caller's *)
(* write lands in the file it opened, at its own offset.                   *)
(***************************************************************************)
NDownloaders == 2

Downloaders == 1..NDownloaders

\* half is set when the first of the two steps a caller takes at pc has
\* been taken: path.exists() has returned True and path.unlink() is next.
Dc(pc, url, attempt, pos, of, result) ==
    [pc |-> pc, url |-> url, attempt |-> attempt, pos |-> pos, of |-> of,
     mb |-> 0, header |-> "none", at |-> "none", half |-> FALSE, result |-> result]

DcIdle == Dc("idle", 0, 0, 0, 0, FALSE)
DcDone(result) == Dc("done", 0, 0, 0, 0, result)

\* A caller at the same URL and attempt, at another place of the code.
DcAt(r, pc) == Dc(pc, r.url, r.attempt, 0, 0, FALSE)

DcQuiet ==
    UNCHANGED <<lmdb_env, lmdb, sqlite, position_cache, call, ret, nCalls, dl,
                arch, dataset_db, bg>>

\* Where the open files of the callers are after a path was unlinked, and
\* after the temporary file was moved over the final path.
AfterUnlink(th, where) ==
    [u \in DOMAIN th |-> IF th[u].at = where THEN [th[u] EXCEPT !.at = "gone"] ELSE th[u]]

AfterMove(th) ==
    [u \in DOMAIN th |->
        CASE th[u].at = "final" -> [th[u] EXCEPT !.at = "gone"]
          [] th[u].at = "tmp" -> [th[u] EXCEPT !.at = "final"]
          [] OTHER -> th[u]]

\* download_dataset: if self.is_dataset_available(dataset_name): return True
DcStart(t) ==
    /\ thr[t].pc = "idle"
    /\ thr' = [thr EXCEPT ![t] =
                 IF is_dataset_available(files) THEN DcDone(TRUE)
                 ELSE Dc("limit", 0, 0, 0, 0, FALSE)]
    /\ UNCHANGED <<files, retry_count>>
    /\ DcQuiet

\* download_dataset: if self._retry_count[dataset_name] >= 3: return False
DcLimit(t) ==
    /\ thr[t].pc = "limit"
    /\ thr' = [thr EXCEPT ![t] =
                 IF retry_count >= RetryLimit THEN DcDone(FALSE)
                 ELSE Dc("attempt", 1, 0, 0, 0, FALSE)]
    /\ UNCHANGED <<files, retry_count>>
    /\ DcQuiet

\* _download_with_retry returned False: the caller goes to the next URL, or
\* to self._retry_count[dataset_name] += 1 after the last one.
DcAfterUrlFailed(r) ==
    IF r.url < NumUrls THEN Dc("attempt", r.url + 1, 0, 0, 0, FALSE)
    ELSE DcAt(r, "count")

\* except requests.exceptions.RequestException: the next attempt after the
\* sleep, or return False after the last one
DcAfterRequestException(r) ==
    IF r.attempt < MaxRetries - 1 THEN Dc("attempt", r.url, r.attempt + 1, 0, 0, FALSE)
    ELSE DcAfterUrlFailed(r)

DcRequestFails(t) ==
    /\ thr[t].pc = "attempt"
    /\ thr' = [thr EXCEPT ![t] = DcAfterRequestException(thr[t])]
    /\ UNCHANGED <<files, retry_count>>
    /\ DcQuiet

\* open(temp_filepath, 'wb'): a new empty file, or the file that is at the
\* path, truncated
DcRequestOk(t, body) ==
    /\ thr[t].pc = "attempt"
    /\ files' = WriteFile(files, TmpPath, [FileOf(body) EXCEPT !.header = "none"])
    /\ thr' = [thr EXCEPT ![t].pc = "stream", ![t].of = body.n, ![t].mb = body.mb,
                          ![t].header = body.header, ![t].at = "tmp"]
    /\ UNCHANGED retry_count
    /\ DcQuiet

\* The path that names the file a caller has opened.
WrittenPath(at) == IF at = "tmp" THEN TmpPath ELSE DatasetPath

\* The file after a caller wrote its chunk number pos + 1 at its offset: the
\* file grows to the end of the chunk when it was shorter, and the first
\* chunk sets the header.
WriteAt(c, w) ==
    LET grown == IF (w.pos + 1) * w.mb >= SizeMB(c)
                 THEN [c EXCEPT !.got = w.pos + 1, !.mb = w.mb, !.of = w.of]
                 ELSE c
    IN IF w.pos = 0 THEN [grown EXCEPT !.header = w.header] ELSE grown

\* f.write(chunk): the write lands in the file the caller opened, also when
\* another caller has moved it to the final path meanwhile; a write to a
\* file that has no name any more leaves no trace.
DcChunk(t) ==
    /\ thr[t].pc = "stream"
    /\ thr[t].pos < thr[t].of
    /\ files' = IF thr[t].at = "gone" THEN files
                ELSE [files EXCEPT ![WrittenPath(thr[t].at)] = WriteAt(@, thr[t])]
    /\ thr' = [thr EXCEPT ![t].pos = @ + 1]
    /\ UNCHANGED retry_count
    /\ DcQuiet

DcStreamFails(t) ==
    /\ thr[t].pc = "stream"
    /\ thr[t].pos < thr[t].of
    /\ thr' = [thr EXCEPT ![t] = DcAfterRequestException(thr[t])]
    /\ UNCHANGED <<files, retry_count>>
    /\ DcQuiet

\* requests.get, open(temp_filepath, 'wb') or a write raises an exception
\* that is no RequestException: the caller enters `except Exception`
DcUnexpectedError(t) ==
    /\ \/ thr[t].pc = "attempt"
       \/ thr[t].pc = "stream" /\ thr[t].pos < thr[t].of
    /\ thr' = [thr EXCEPT ![t] = DcAt(thr[t], "except")]
    /\ UNCHANGED <<files, retry_count>>
    /\ DcQuiet

\* the stream is complete and the file closed: temp_filepath.stat(), which
\* raises FileNotFoundError when another caller has removed or moved the
\* temporary file
DcStat(t) ==
    /\ thr[t].pc = "stream"
    /\ thr[t].pos = thr[t].of
    /\ thr' = [thr EXCEPT ![t] =
                 DcAt(thr[t], IF Exists(files, TmpPath) THEN "verify" ELSE "except")]
    /\ UNCHANGED <<files, retry_count>>
    /\ DcQuiet

\* if self._verify_file_integrity(temp_filepath)
DcVerify(t) ==
    /\ thr[t].pc = "verify"
    /\ thr' = [thr EXCEPT ![t].pc =
                 IF verify_file_integrity(files, TmpPath, 0) THEN "replace" ELSE "corrupt"]
    /\ UNCHANGED <<files, retry_count>>
    /\ DcQuiet

\* The four places of the form `if path.exists(): path.unlink()`: after a
\* failed verification of the temporary file, before the move, in
\* `except Exception`, and after a failed final verification.
UnlinkPlaces == {"corrupt", "replace", "except", "failed"}

UnlinkPath(pc) == IF pc \in {"corrupt", "except"} THEN TmpPath ELSE DatasetPath

\* The caller after the if statement: sys.exit(1), the move, return False
\* from _download_with_retry, return False from download_dataset.
AfterUnlinkPlace(r) ==
    CASE r.pc = "corrupt" -> DcAt(r, "exited")
      [] r.pc = "replace" -> DcAt(r, "move")
      [] r.pc = "except" -> DcAfterUrlFailed(r)
      [] r.pc = "failed" -> DcDone(FALSE)

\* The caller after path.unlink() raised FileNotFoundError: inside the try
\* block of _download_with_retry the exception is caught by
\* `except Exception`; raised in that handler or in download_dataset it
\* is caught by the `except Exception` of download_dataset.
AfterUnlinkRaised(r) ==
    IF r.pc \in {"corrupt", "replace"} THEN DcAt(r, "except") ELSE DcAt(r, "raised")

\* path.exists()
DcExists(t) ==
    /\ thr[t].pc \in UnlinkPlaces
    /\ ~thr[t].half
    /\ thr' = [thr EXCEPT ![t] =
                 IF Exists(files, UnlinkPath(thr[t].pc)) THEN [thr[t] EXCEPT !.half = TRUE]
                 ELSE AfterUnlinkPlace(thr[t])]
    /\ UNCHANGED <<files, retry_count>>
    /\ DcQuiet

\* path.unlink()
DcUnlink(t) ==
    /\ thr[t].pc \in UnlinkPlaces
    /\ thr[t].half
    /\ IF Exists(files, UnlinkPath(thr[t].pc))
       THEN /\ files' = Unlink(files, UnlinkPath(thr[t].pc))
            /\ thr' = [AfterUnlink(thr, IF UnlinkPath(thr[t].pc) = TmpPath
                                        THEN "tmp" ELSE "final")
                         EXCEPT ![t] = AfterUnlinkPlace(thr[t])]
       ELSE /\ thr' = [thr EXCEPT ![t] = AfterUnlinkRaised(thr[t])]
            /\ UNCHANGED files
    /\ UNCHANGED retry_count
    /\ DcQuiet

\* shutil.move(temp_filepath, filepath), which raises FileNotFoundError when
\* the temporary file is not there
DcMove(t) ==
    /\ thr[t].pc = "move"
    /\ IF Exists(files, TmpPath)
       THEN /\ files' = Move(files, TmpPath, DatasetPath)
            /\ thr' = [AfterMove(thr) EXCEPT ![t].pc = "check"]
       ELSE /\ thr' = [thr EXCEPT ![t].pc = "except"]
            /\ UNCHANGED files
    /\ UNCHANGED retry_count
    /\ DcQuiet

\* final_size = filepath.stat().st_size, which raises FileNotFoundError when
\* the final file is not there
DcCheck(t) ==
    /\ thr[t].pc = "check"
    /\ thr' = [thr EXCEPT ![t].pc = IF Exists(files, DatasetPath) THEN "checksum" ELSE "except"]
    /\ UNCHANGED <<files, retry_count>>
    /\ DcQuiet

\* self._calculate_checksum(filepath)[:16]: _calculate_checksum opens the
\* final file; when the file is not there it logs the error and returns
\* None, and None[:16] raises TypeError.  Otherwise _download_with_retry
\* returns True.
DcChecksum(t) ==
    /\ thr[t].pc = "checksum"
    /\ thr' = [thr EXCEPT ![t].pc = IF Exists(files, DatasetPath) THEN "moved" ELSE "except"]
    /\ UNCHANGED <<files, retry_count>>
    /\ DcQuiet

\* download_dataset: if self._verify_file_integrity(filepath, size_mb):
\* return True
DcFinalVerify(t) ==
    /\ thr[t].pc = "moved"
    /\ thr' = [thr EXCEPT ![t] =
                 IF verify_file_integrity(files, DatasetPath, ExpectedMB) THEN DcDone(TRUE)
                 ELSE DcAt(thr[t], "failed")]
    /\ UNCHANGED <<files, retry_count>>
    /\ DcQuiet

\* self._retry_count[dataset_name] += 1; return False: after the last URL
\* has failed, and in the `except Exception` of download_dataset
DcCount(t) ==
    /\ thr[t].pc \in {"count", "raised"}
    /\ retry_count' = retry_count + 1
    /\ thr' = [thr EXCEPT ![t] = DcDone(FALSE)]
    /\ UNCHANGED files
    /\ DcQuiet

\* the call has returned; the caller may call again
DcReturn(t) ==
    /\ thr[t].pc = "done"
    /\ thr' = [thr EXCEPT ![t] = DcIdle]
    /\ UNCHANGED <<files, retry_count>>
    /\ DcQuiet

InitDlConc ==
    /\ InitStore
    /\ NoArchive
    /\ NoBackground
    /\ thr = [t \in Downloaders |-> DcIdle]
    /\ files = EmptyFn
    /\ dl = EmptyFn
    /\ retry_count = 0

NextDlConc ==
    \E t \in Downloaders :
        \/ DcStart(t)
        \/ DcLimit(t)
        \/ DcRequestFails(t)
        \/ \E body \in Bodies : DcRequestOk(t, body)
        \/ DcChunk(t)
        \/ DcStreamFails(t)
        \/ DcUnexpectedError(t)
        \/ DcStat(t)
        \/ DcVerify(t)
        \/ DcExists(t)
        \/ DcUnlink(t)
        \/ DcMove(t)
        \/ DcCheck(t)
        \/ DcChecksum(t)
        \/ DcFinalVerify(t)
        \/ DcCount(t)
        \/ DcReturn(t)

SpecDlConc == InitDlConc /\ [][NextDlConc]_vars

InFlight ==
    {t \in Downloaders :
        thr[t].pc \notin {"idle", "limit", "done", "exited"}}

\* C13: at most one download of the archive is in flight: two callers are
\* never both between the start of their first attempt and their return.
C13_OneDownloadInFlight ==
    Cardinality(InFlight) <= 1

\* A caller's download_dataset call ends having tried every URL.
Exhausts(t) ==
    thr[t].pc = "count" /\ thr'[t].pc = "done"

\* A caller starts download_dataset while the retry count is at the limit.
StartsAtLimit(t) ==
    thr[t].pc = "limit" /\ thr'[t].pc # "limit" /\ retry_count >= RetryLimit

\* C16: a download_dataset call that exhausts all URLs returns false and
\* adds exactly one to the retry count; at the limit every further call
\* returns without an HTTP attempt; the count never exceeds the limit, in
\* every interleaving of calls.
C16_RetryCountCapped ==
    [][\A t \in Downloaders :
          /\ Exhausts(t) => (~thr'[t].result /\ retry_count' = retry_count + 1)
          /\ StartsAtLimit(t) => thr'[t].pc = "done"
          /\ retry_count' <= RetryLimit]_vars

(***************************************************************************)
(* The pure functions (specification SpecPure): utils.normalize_fen and    *)
(* the performance_score property of the two MoveStats classes, each       *)
(* applied to an input drawn from a bounded set.                           *)
(***************************************************************************)
MaxTally == 3
MaxClock == 2
MaxGames == 101

FenDescriptions ==
    {Fen(b, h, f) : b \in BoardInputs, h \in 0..MaxClock, f \in 1..MaxClock}
    \cup {BadFen}

Tally == 0..MaxTally

PureCall(op, arg) == [op |-> op, arg |-> arg]

\* Each behaviour applies one function to one input.
PureIdle ==
    /\ nCalls = 0
    /\ nCalls' = 1
    /\ UNCHANGED <<lmdb_env, lmdb, sqlite, position_cache, thr, files, dl,
                   retry_count, arch, dataset_db, bg>>

\* normalize_fen(fen): chess.Board(fen) raises ValueError on an invalid
\* description.
NormalizeFen(fen) ==
    /\ call' = PureCall("normalize_fen", fen)
    /\ ret' = IF Parses(fen) THEN Value(normalize_fen(fen))
              ELSE [raised |-> TRUE, value |-> fen]
    /\ PureIdle

\* data_manager.MoveStats(...).performance_score
PerformanceScore(wins, losses, draws) ==
    /\ call' = PureCall("data_manager.MoveStats.performance_score",
                        MoveStats(StartFen, "e2e4", wins, losses, draws, RealTag, ArchiveFile))
    /\ ret' = Value(performance_score(call'.arg))
    /\ PureIdle

\* utils.MoveStats(...).performance_score
UtilsPerformanceScore(wins, losses, draws) ==
    /\ call' = PureCall("utils.MoveStats.performance_score",
                        MoveStats(StartFen, "e2e4", wins, losses, draws, RealTag, ArchiveFile))
    /\ ret' = Value(utils_performance_score(call'.arg))
    /\ PureIdle

\* DatasetManager._verify_file_integrity(filepath, expected_size_mb) on a
\* .zst file of size_mb MB (on no file when present is false);
\* expected_mb = 0 stands for expected_size_mb=None.
SizeInputs == {0, 1, 60, 101, 1529, 1530, 1700, 1870, 1871, 2700}

FileInputs ==
    [path : {DatasetPath, TmpPath}, present : BOOLEAN, size_mb : SizeInputs,
     header : Headers, readable : BOOLEAN]

FsWith(file) ==
    IF file.present
    THEN WriteFile(EmptyFn, file.path,
                   [got |-> 1, of |-> 1, mb |-> file.size_mb, header |-> file.header,
                    readable |-> file.readable])
    ELSE EmptyFn

VerifyFileIntegrity(file, expected_mb) ==
    /\ call' = PureCall("verify_file_integrity", [file |-> file, expected_mb |-> expected_mb])
    /\ ret' = Value(verify_file_integrity(FsWith(file), file.path, expected_mb))
    /\ PureIdle

\* DatasetManager.get_relevant_datasets_for_position(fen), given the set of
\* datasets is_dataset_available accepts.
Catalog == {"lichess_2023_01", "lichess_2022_12", "lichess_2022_11", "lichess_2022_10"}

\* self.position_datasets
position_datasets(position_type) ==
    CASE position_type = "opening" -> <<"lichess_2023_01", "lichess_2022_12">>
      [] position_type = "middlegame" ->
            <<"lichess_2023_01", "lichess_2022_12", "lichess_2022_11">>
      [] OTHER ->
            <<"lichess_2023_01", "lichess_2022_12", "lichess_2022_11", "lichess_2022_10">>

PositionType(move_count) ==
    IF move_count < 10 THEN "opening"
    ELSE IF move_count < 30 THEN "middlegame"
    ELSE "endgame"

\* len(chess.Board(fen).move_stack): a board set up from a description has
\* an empty move stack, whatever the description's move counters are.
MoveStackLen(fen) == 0

DefaultDatasets == <<"lichess_2023_01">>

get_relevant_datasets_for_position(fen, available) ==
    IF ~Parses(fen) THEN DefaultDatasets
    ELSE LET relevant_datasets == position_datasets(PositionType(MoveStackLen(fen)))
             IsAvailable(dataset) == dataset \in available
             available_datasets == SelectSeq(relevant_datasets, IsAvailable)
         IN IF available_datasets = <<>> THEN DefaultDatasets ELSE available_datasets

\* Descriptions of positions after 0, 14 and 39 full moves.
PhaseFenInputs == {StartFen, Fen("start", 0, 15), Fen("start", 0, 40), BadFen}

GetRelevantDatasets(fen, available) ==
    /\ call' = PureCall("get_relevant_datasets_for_position",
                        [fen |-> fen, available |-> available])
    /\ ret' = Value(get_relevant_datasets_for_position(fen, available))
    /\ PureIdle

\* The confidence label of the three implementations.
ConfidenceOps ==
    {"data_manager.MoveStats.confidence_level", "utils.MoveStats.confidence_level",
     "DatasetProcessor.get_position_stats.confidence"}

ConfidenceOf(op, s) ==
    CASE op = "data_manager.MoveStats.confidence_level" -> confidence_level(s)
      [] op = "utils.MoveStats.confidence_level" -> utils_confidence_level(s)
      [] OTHER -> dataset_confidence_level(s)

Games(wins, losses, draws) ==
    MoveStats(StartFen, "e2e4", wins, losses, draws, RealTag, ArchiveFile)

ConfidenceLevel(op, wins, losses, draws) ==
    /\ call' = PureCall(op, Games(wins, losses, draws))
    /\ ret' = Value(ConfidenceOf(op, call'.arg))
    /\ PureIdle

InitPure ==
    /\ InitStore
    /\ NoThreads
    /\ InitDatasets
    /\ NoArchive
    /\ NoBackground

NextPure ==
    \/ \E fen \in FenDescriptions : NormalizeFen(fen)
    \/ \E w \in Tally, l \in Tally, d \in Tally : PerformanceScore(w, l, d)
    \/ \E w \in Tally, l \in Tally, d \in Tally : UtilsPerformanceScore(w, l, d)
    \/ \E op \in ConfidenceOps, w \in 0..MaxGames, l \in 0..1, d \in 0..1 :
          ConfidenceLevel(op, w, l, d)
    \/ \E file \in FileInputs, expected_mb \in {0, ExpectedMB} :
          VerifyFileIntegrity(file, expected_mb)
    \/ \E fen \in PhaseFenInputs, available \in SUBSET Catalog :
          GetRelevantDatasets(fen, available)

SpecPure == InitPure /\ [][NextPure]_vars

\* Two descriptions of one position that differ only in the halfmove clock
\* and the move number.
DifferOnlyInCounters(x, y) == x.board = y.board

Normalized == call.op = "normalize_fen" /\ ~ret.raised

\* C18: normalize_fen is idempotent, and any valid description that differs
\* from the one normalized only in its move counters normalizes to the same
\* output.
C18_NormalizeIdempotentMerging ==
    Normalized =>
        /\ normalize_fen(ret.value) = ret.value
        /\ \A y \in FenDescriptions :
              (Parses(y) /\ DifferOnlyInCounters(call.arg, y)) =>
                  normalize_fen(y) = ret.value

C18_Witness ==
    /\ Normalized
    /\ call.arg = Fen("e4 ep e3", MaxClock, MaxClock)
    /\ ret.value = Fen("e4", 0, 1)

Scored ==
    call.op \in {"data_manager.MoveStats.performance_score",
                 "utils.MoveStats.performance_score"}

KeyFenInputs ==
    {Fen("e4", 0, 1), Fen("e4", MaxClock, MaxClock),
     Fen("e4 ep e3", MaxClock, MaxClock), BadFen}

DownloadPositionSpecificData(fen, network) ==
    /\ nCalls < MaxCalls
    /\ nCalls' = nCalls + 1
    /\ call' = ApiCall("download_position_specific_data", fen, "", "", network, 0)
    /\ UNCHANGED <<lmdb_env, lmdb, thr, files, dl, retry_count, arch, dataset_db, bg>>
    /\ \E jit \in DrawsOf(sqlite, position_cache, fen, network, 0) :
          LET r == download_position_specific_data(sqlite, position_cache, fen, network, jit)
          IN /\ ret' = Value(r.value)
             /\ sqlite' = r.sqlite
             /\ position_cache' = r.position_cache

NextKeys ==
    \/ \E fen \in KeyFenInputs :
          GetPositionStats(fen, NoNetwork, 0)
    \/ \E fen \in KeyFenInputs :
          DownloadPositionSpecificData(fen, NoNetwork)
    \/ \E k \in StoreKeys, result \in Results :
          StoreGameResult(k[1], k[2], result, RealTag)

SpecKeys == Init /\ [][NextKeys]_vars

\* A description in normal form: counters 0 and 1, no en passant square
\* that cannot be used, no castling right that cannot be used.
Canonical(fen) ==
    /\ fen.hm = 0 /\ fen.fm = 1
    /\ fen.board \notin {"e4 ep e3", "moved king KQkq"}
    /\ normalize_fen(fen) = fen

StoreAndCacheKeys ==
    {r.fen : r \in sqlite} \cup {k[1] : k \in DOMAIN lmdb}
    \cup {k[1] : k \in DOMAIN position_cache}

\* C19: every position that keys a row of the aggregate table, an LMDB
\* record or a cache entry is in normal form, so two descriptions of one
\* position never make two keys.
C19_KeysCanonical ==
    /\ \A fen \in StoreAndCacheKeys : Canonical(fen)
    /\ \A a \in StoreAndCacheKeys, b \in StoreAndCacheKeys :
          normalize_fen(a) = normalize_fen(b) => a = b

C19_Witness ==
    /\ call.op = "download_position_specific_data"
    /\ call.fen = Fen("e4 ep e3", MaxClock, MaxClock)
    /\ \E r \in sqlite : r.fen = Fen("e4", 0, 1)
    /\ \E k \in DOMAIN position_cache : k[1] = Fen("e4", 0, 1)
    /\ \E k \in DOMAIN lmdb : k[1] = StartFen

TierRank(label) ==
    CASE label = "very_low" -> 0
      [] label = "low" -> 1
      [] label = "medium" -> 2
      [] OTHER -> 3

\* C21: confidence_level is a non-decreasing step function of total_games
\* in each of its three implementations: an aggregate with fewer games never
\* has a higher tier, one with more games never a lower tier.
C21_ConfidenceMonotone ==
    (call.op \in ConfidenceOps /\ ret.value # Skipped) =>
        \A b \in 0..(MaxGames + 2) :
            ConfidenceOf(call.op, Games(b, 0, 0)) # Skipped =>
                /\ b <= total_games(call.arg) =>
                      TierRank(ConfidenceOf(call.op, Games(b, 0, 0))) <= TierRank(ret.value)
                /\ total_games(call.arg) <= b =>
                      TierRank(ret.value) <= TierRank(ConfidenceOf(call.op, Games(b, 0, 0)))

C21_Witness ==
    /\ call.op = "data_manager.MoveStats.confidence_level"
    /\ total_games(call.arg) = 100
    /\ ret.value = "high"

(***************************************************************************)
(* Monotonicity of the stored aggregates.                                  *)
(***************************************************************************)
\* C22: across every store operation the wins, losses and draws of each
\* stored (position, move, source_tag) aggregate are non-negative and never
\* decrease: a row of move_stats present before a step is present after it
\* under the same key with counts at least as large.
C22_CountsNeverDecrease ==
    [][\A r \in sqlite :
          /\ r.wins >= 0 /\ r.losses >= 0 /\ r.draws >= 0
          /\ \E q \in sqlite' :
                /\ SameKey(q, r)
                /\ q.wins >= r.wins /\ q.losses >= r.losses /\ q.draws >= r.draws]_vars

(***************************************************************************)
(* Records without an outcome.                                             *)
(***************************************************************************)
\* C23: a game record with no outcome tag or with the result '*' is skipped
\* by both archive processors: the step that processes it makes no
\* merge-update, writes nothing to the store and credits no win, loss or
\* draw to any (position, move).
C23_NoOutcomeSkipped ==
    [][(/\ arch.pc = "loop"
        /\ arch.i <= Len(arch.recs)
        /\ ~HasOutcome(arch.recs[arch.i])
        /\ arch'.i = arch.i + 1) =>
          /\ sqlite' = sqlite
          /\ lmdb' = lmdb
          /\ arch'.updates = arch.updates
          /\ arch'.position_stats = arch.position_stats]_vars

(***************************************************************************)
(* Archives with an unknown extension.                                     *)
(***************************************************************************)
KnownExtension(filename) == open_method(filename) # "open"

\* C24: process_archive on a file whose extension is none of the known
\* formats yields zero processed games, writes nothing to the store and
\* returns normally.
C24_UnknownExtensionYieldsNothing ==
    (arch.proc = "archive" /\ ~KnownExtension(arch.filename)) =>
        /\ arch.pc \in {"loop", "done"}
        /\ arch.processed_games = 0
        /\ arch.updates = <<>>
        /\ sqlite = {}
        /\ lmdb = EmptyFn

C24_Witness ==
    /\ arch.proc = "archive"
    /\ ~KnownExtension(arch.filename)
    /\ arch.pc = "done"
    /\ Len(arch.recs) = MaxRecords
    /\ \A i \in 1..Len(arch.recs) : ValidRecord(arch.recs[i])

(***************************************************************************)
(* The pending queue.                                                      *)
(***************************************************************************)
\* C25: fetch_position_data does nothing to the queue for a position that
\* is already pending: after every interleaving of fetch_position_data
\* calls and worker dequeues the pending queue holds each position at most
\* once.
C25_QueueHoldsPositionOnce ==
    \A i, j \in 1..Len(bg.download_queue) :
        bg.download_queue[i] = bg.download_queue[j] => i = j

\* Two callers have each asked for the same position, nothing has been
\* dequeued, and the position is pending once.
C25_Witness ==
    /\ bg.workers = <<>>
    /\ \A c \in Callers : bg.callers[c].n = 1
    /\ bg.download_queue = <<MateFen>>

(***************************************************************************)
(* DataManager.cleanup_cache (specification SpecCleanup).                  *)
(***************************************************************************)
\* The methods class CacheManager defines.
CacheManagerMethods ==
    {"init_storage", "create_tables", "store_game_result", "get_move_stats",
     "update_move_stats", "get_all_moves_for_position"}

cleanup_cache_store_first(cache) ==
    IF "cleanup_cache" \in CacheManagerMethods
    THEN [raised |-> FALSE, position_cache |-> EmptyFn]
    ELSE [raised |-> FALSE, position_cache |-> cache]

\* cleanup_cache: self._position_cache.clear(), then
\* self.cache_manager.cleanup_cache(), which CacheManager does not define:
\* the AttributeError is caught and logged by except Exception.
cleanup_cache(cache) ==
    IF "cleanup_cache" \in CacheManagerMethods
    THEN [raised |-> FALSE, position_cache |-> EmptyFn]
    ELSE [raised |-> FALSE, position_cache |-> EmptyFn]

CleanupCache ==
    /\ nCalls < MaxCalls
    /\ nCalls' = nCalls + 1
    /\ call' = ApiCall("cleanup_cache", StartFen, "", "", NoNetwork, 0)
    /\ LET r == cleanup_cache(position_cache)
       IN /\ ret' = [raised |-> r.raised, list |-> <<>>]
          /\ position_cache' = r.position_cache
    /\ UNCHANGED <<lmdb_env, lmdb, sqlite, thr, files, dl, retry_count, arch, dataset_db, bg>>

NextCleanup ==
    \/ \E fen \in {TacticFen, BadFen} :
          GetPositionStats(fen, NoNetwork, 0)
    \/ \E k \in StoreKeys, result \in Results :
          StoreGameResult(k[1], k[2], result, RealTag)
    \/ CleanupCache

SpecCleanup == Init /\ [][NextCleanup]_vars

\* C26: every call of cleanup_cache returns normally and leaves the result
\* cache empty, whether or not the cache or the store held anything; the
\* SQLite table and the LMDB records are as they were before the call.
C26_CleanupEmptiesCacheOnly ==
    [][(call'.op = "cleanup_cache" /\ nCalls' = nCalls + 1) =>
          /\ ~ret'.raised
          /\ position_cache' = EmptyFn
          /\ sqlite' = sqlite
          /\ lmdb' = lmdb]_vars

\* cleanup_cache has just returned after get_position_stats had stored and
\* cached synthetic rows (with LMDB open nothing else writes the table).
C26_Witness ==
    /\ call.op = "cleanup_cache"
    /\ lmdb_env
    /\ sqlite # {}
    /\ position_cache = EmptyFn

(***************************************************************************)
(* CacheManager.init_storage (specification SpecInit).                     *)
(* __init__ sets lmdb_env and sqlite_conn to None and calls init_storage.  *)
(* lmdb_open, sqlite_first and sqlite_retry say whether lmdb.open, the     *)
(* SQLite set-up in the try block and the SQLite set-up in the except      *)
(* block succeed.  The calls that follow run on the store init_storage     *)
(* left when it returned.                                                  *)
(***************************************************************************)
Storage(raised, env, conn) == [raised |-> raised, lmdb_env |-> env, sqlite_conn |-> conn]

init_storage_no_fallback(lmdb_open, sqlite_first, sqlite_retry) ==
    IF lmdb_open /\ sqlite_first THEN Storage(FALSE, TRUE, TRUE)
    ELSE Storage(TRUE, FALSE, FALSE)

init_storage(lmdb_open, sqlite_first, sqlite_retry) ==
    IF lmdb_open /\ sqlite_first THEN Storage(FALSE, TRUE, TRUE)
    ELSE IF sqlite_retry THEN Storage(FALSE, FALSE, TRUE)
    ELSE Storage(TRUE, FALSE, FALSE)

InitCall(lmdb_open, sqlite_first, sqlite_retry) ==
    [op |-> "init_storage", lmdb_open |-> lmdb_open,
     sqlite_first |-> sqlite_first, sqlite_retry |-> sqlite_retry]

InitStorage(lmdb_open, sqlite_first, sqlite_retry) ==
    /\ call.op = "none"
    /\ call' = InitCall(lmdb_open, sqlite_first, sqlite_retry)
    /\ LET r == init_storage(lmdb_open, sqlite_first, sqlite_retry)
       IN /\ ret' = [raised |-> r.raised, list |-> <<>>, sqlite_conn |-> r.sqlite_conn]
          /\ lmdb_env' = r.lmdb_env
    /\ UNCHANGED <<lmdb, sqlite, position_cache, nCalls, thr, files, dl,
                   retry_count, arch, dataset_db, bg>>

\* CacheManager() has returned: there is a store to call.
Constructed == call.op # "none" /\ ~(call.op = "init_storage" /\ ret.raised)

InitInit ==
    /\ InitStore
    /\ ~lmdb_env
    /\ NoThreads /\ NoDownload /\ NoArchive /\ NoBackground

NextInit ==
    \/ \E lmdb_open \in BOOLEAN, sqlite_first \in BOOLEAN, sqlite_retry \in BOOLEAN :
          InitStorage(lmdb_open, sqlite_first, sqlite_retry)
    \/ \E network \in NetworkInputs :
          /\ Constructed
          /\ ~Synthesizes(sqlite, position_cache, StartFen, network, 0)
          /\ GetPositionStats(StartFen, network, 0)
    \/ \E k \in StoreKeys, result \in Results :
          Constructed /\ StoreGameResult(k[1], k[2], result, RealTag)

SpecInit == InitInit /\ [][NextInit]_vars

IsInitStorage(c) == c.op = "init_storage"

\* C27: when lmdb.open fails and SQLite can be set up, init_storage returns
\* normally in SQLite-only mode with an open SQLite connection; it raises
\* only when the SQLite set-up of the except block fails, SQLite being the
\* backend both modes need.
C27_FallbackToSqlite ==
    [][IsInitStorage(call') =>
          /\ (~call'.lmdb_open /\ call'.sqlite_retry) =>
                (~ret'.raised /\ ~lmdb_env' /\ ret'.sqlite_conn)
          /\ ret'.raised => ~call'.sqlite_retry]_vars

\* C27 as stated: init_storage raises only when neither LMDB nor SQLite can
\* be initialized.
C27_Original ==
    [][IsInitStorage(call') =>
          /\ (~call'.lmdb_open /\ call'.sqlite_retry) =>
                (~ret'.raised /\ ~lmdb_env' /\ ret'.sqlite_conn)
          /\ ret'.raised =>
                (~call'.lmdb_open /\ ~call'.sqlite_first /\ ~call'.sqlite_retry)]_vars

\* After a start in which LMDB failed, the SQLite-only store has taken a
\* game result and served it back.
C27_Witness ==
    /\ ~lmdb_env
    /\ IsGetPositionStats(call)
    /\ \E i \in 1..Len(ret.list) : total_games(ret.list[i]) = 1

(***************************************************************************)
(* The min_games filter of get_position_stats.                             *)
(***************************************************************************)
EntriesFor(table, fen, network) ==
    {r \in table : r.fen = normalize_fen(fen)
                   /\ (network # NoNetwork => r.network = network)}

\* C28: when get_position_stats(position, source_tag, min_games) has
\* returned, no returned entry has fewer games than min_games, every
\* returned entry is an entry of the store for the position and tag, and no
\* entry of the store for the position and tag with at least min_games games
\* is missing from the list, also when the list came from the result cache.
C28_ExactlyEntriesAtLeastMinGames ==
    (IsGetPositionStats(call) /\ Parses(call.fen)) =>
        /\ \A r \in Range(ret.list) : total_games(r) >= call.min_games
        /\ \A r \in Range(ret.list) : r \in EntriesFor(sqlite, call.fen, call.network)
        /\ \A r \in EntriesFor(sqlite, call.fen, call.network) :
              total_games(r) >= call.min_games => r \in Range(ret.list)

(***************************************************************************)
(* Progress of the background worker (specification SpecWorkerFair).       *)
(* A thread that has a step to take takes it: a caller inside              *)
(* fetch_position_data runs to its return and a started worker thread runs *)
(* to its end.  Nothing obliges anyone to call fetch_position_data again.  *)
(***************************************************************************)
FairWorker ==
    /\ \A c \in Callers :
          WF_vars(FetchCheck(c)) /\ WF_vars(StartCheck(c)) /\ WF_vars(StartThread(c))
    /\ \A w \in 1..MaxWorkers :
          WF_vars(WorkerWhile(w)) /\ WF_vars(WorkerPop(w))
          /\ WF_vars(WorkerProcess(w)) /\ WF_vars(WorkerQuery(w))
          /\ WF_vars(WorkerWriteRow(w)) /\ WF_vars(WorkerCache(w))
          /\ WF_vars(WorkerFinally(w))

SpecWorkerFair == InitWorker /\ [][NextWorker]_vars /\ FairWorker

Pending(fen) == \E i \in 1..Len(bg.download_queue) : bg.download_queue[i] = fen

\* C29: under fair scheduling every position put into the queue by
\* fetch_position_data is eventually taken out of the queue by a background
\* worker, with no further fetch_position_data call needed.
C29_EnqueuedEventuallyDequeued ==
    \A fen \in QueueInputs : Pending(fen) ~> ~Pending(fen)

(***************************************************************************)
(* Verification before the move to the final path.                         *)
(***************************************************************************)
\* C30: DatasetManager moves a downloaded file to the final path only after
\* it has passed the integrity check (size within the tolerance of the
\* expected size, zstd magic number): at no point from the move on does the
\* final path hold a file the integrity check judges corrupted.
C30_FinalPathHoldsVerifiedFile ==
    (dl.kind = "manager" /\ Exists(files, DatasetPath)) =>
        verify_file_integrity(files, DatasetPath, ExpectedMB)

(***************************************************************************)
(* The order of URLs and of attempts in DatasetManager.download_dataset.   *)
(***************************************************************************)
InDownload(d) == d.kind = "manager" /\ d.pc \in InTry \cup {"sleep", "moved"}

ReturnsFalse == InDownload(dl) /\ dl'.pc = "done" /\ ~dl'.result
ReturnsTrue == InDownload(dl) /\ dl'.pc = "done" /\ dl'.result

\* C31: download_dataset starts with the primary URL and goes through the
\* fallback URLs in catalog order; it returns True at the first URL whose
\* file is downloaded and verified, and it returns False only when the last
\* URL of the list has been tried and has failed.
C31_UrlsInOrderUntilSuccess ==
    [][/\ (dl.kind = "manager" /\ dl.pc = "idle" /\ InDownload(dl')) => dl'.url = 1
       /\ (InDownload(dl) /\ InDownload(dl')) => dl'.url \in {dl.url, dl.url + 1}
       /\ ReturnsTrue => verify_file_integrity(files', DatasetPath, ExpectedMB)
       /\ ReturnsFalse => dl.url = NumUrls]_vars

\* C32: a RequestException in an attempt, raised before the response
\* arrives or while it is streamed, is followed by a sleep of 2^attempt
\* seconds (attempt counted from 0) and then by another attempt at the same
\* URL, as long as fewer than MaxRetries attempts have been made; only the
\* failure of attempt MaxRetries - 1 moves the download on to the next URL
\* or ends it with False.
C32_RetryWithBackoffThenNextUrl ==
    [][/\ (MgrRequestFails \/ MgrStreamFails) =>
            IF dl.attempt < MaxRetries - 1
            THEN /\ dl'.pc = "sleep"
                 /\ dl'.url = dl.url
                 /\ dl'.attempt = dl.attempt
                 /\ dl'.slept = 2 ^ dl.attempt
            ELSE \/ dl'.pc = "attempt" /\ dl'.url = dl.url + 1 /\ dl'.attempt = 0
                 \/ dl'.pc = "done" /\ ~dl'.result /\ dl.url = NumUrls
       /\ MgrWake =>
            /\ dl'.pc = "attempt"
            /\ dl'.url = dl.url
            /\ dl'.attempt = dl.attempt + 1]_vars

\* The third attempt at the fallback URL is streaming, after sleeps of one
\* and two seconds.
C32_Witness ==
    /\ dl.kind = "manager"
    /\ dl.pc = "stream"
    /\ dl.url = NumUrls
    /\ dl.attempt = MaxRetries - 1
    /\ dl.slept = 2

(***************************************************************************)
(* The size tolerance of _verify_file_integrity.                           *)
(***************************************************************************)
IsVerifyWithExpectedSize ==
    call.op = "verify_file_integrity" /\ call.arg.expected_mb # 0

\* C33: with a known expected size, _verify_file_integrity accepts a file
\* only if the file exists, is not trivially small and has a size within
\* 10% of the expected size in both directions.
C33_SizeWithinTenPercent ==
    (IsVerifyWithExpectedSize /\ ret.value) =>
        /\ call.arg.file.present
        /\ call.arg.file.size_mb >= 1
        /\ 10 * call.arg.file.size_mb >= 9 * call.arg.expected_mb
        /\ 10 * call.arg.file.size_mb <= 11 * call.arg.expected_mb

(***************************************************************************)
(* A move that does not parse.                                             *)
(***************************************************************************)
RECURSIVE CreditAll(_, _, _)
CreditAll(stats, grs, dataset) ==
    IF grs = <<>> THEN stats
    ELSE CreditAll(Credit(stats, Head(grs).fen, Head(grs).move, Head(grs).result, dataset),
                   Tail(grs), dataset)

ProcessesBrokenGame ==
    /\ arch.pc = "loop"
    /\ arch.i <= Len(arch.recs)
    /\ HasOutcome(arch.recs[arch.i])
    /\ ~Parseable(arch.recs[arch.i])
    /\ arch'.i = arch.i + 1

\* C34: the step that replays a game holding a move that does not parse
\* makes the updates of the moves before that move and of no move after
\* it, in both archive processors, and the run goes on to the next record.
C34_ReplayStopsAtFirstBadMove ==
    [][ProcessesBrokenGame =>
          LET rec == arch.recs[arch.i]
              before == GameResultsFrom("start", rec.moves, rec.result, RealTag)
          IN /\ arch'.pc = "loop"
             /\ arch.proc = "dataset" =>
                   arch'.position_stats = CreditAll(arch.position_stats, before, DatasetName)
             /\ arch.proc = "archive" =>
                   arch'.updates = arch.updates \o before]_vars

(***************************************************************************)
(* The datasets relevant to a position.                                    *)
(***************************************************************************)
\* The full moves played so far according to the description's move number.
MovesPlayed(fen) == fen.fm - 1

RelevantByMoveCount(fen, available) ==
    LET tagged == position_datasets(PositionType(MovesPlayed(fen)))
        IsAvailable(dataset) == dataset \in available
    IN SelectSeq(tagged, IsAvailable)

\* C35: get_relevant_datasets_for_position classifies the position by the
\* number of moves played as given by the description's move counter (fewer
\* than 10 opening, fewer than 30 middlegame, otherwise endgame) and returns
\* the available catalog entries of that phase in relevance order, or the
\* single default entry when none of them is available.
C35_RelevantByGamePhase ==
    (call.op = "get_relevant_datasets_for_position" /\ Parses(call.arg.fen)) =>
        ret.value =
            IF RelevantByMoveCount(call.arg.fen, call.arg.available) = <<>>
            THEN DefaultDatasets
            ELSE RelevantByMoveCount(call.arg.fen, call.arg.available)

(***************************************************************************)
(* CacheManager.get_move_stats (specification SpecGet).                    *)
(***************************************************************************)
GetMoveStats(fen, move, network) ==
    /\ nCalls < MaxCalls
    /\ nCalls' = nCalls + 1
    /\ call' = ApiCall("get_move_stats", fen, move, "", network, 0)
    /\ ret' = Value(get_move_stats(sqlite, fen, move, network))
    /\ UNCHANGED <<lmdb_env, lmdb, sqlite, position_cache, thr, files, dl,
                   retry_count, arch, dataset_db, bg>>

\* CacheManager.update_move_stats(stats), called on its own.
UpdateMoveStats(fen, move, wins, losses, draws, network) ==
    /\ nCalls < MaxCalls
    /\ nCalls' = nCalls + 1
    /\ call' = ApiCall("update_move_stats", fen, move, "", network, 0)
    /\ ret' = Returned(<<>>)
    /\ sqlite' = update_move_stats(sqlite, MoveStats(fen, move, wins, losses, draws,
                                                     network, ArchiveFile))
    /\ UNCHANGED <<lmdb_env, lmdb, position_cache, thr, files, dl,
                   retry_count, arch, dataset_db, bg>>

\* CacheManager.get_all_moves_for_position(fen, network)
GetAllMovesForPosition(fen, network) ==
    /\ nCalls < MaxCalls
    /\ nCalls' = nCalls + 1
    /\ call' = ApiCall("get_all_moves_for_position", fen, "", "", network, 0)
    /\ ret' = Returned(get_all_moves_for_position(sqlite, fen, network))
    /\ UNCHANGED <<lmdb_env, lmdb, sqlite, position_cache, thr, files, dl,
                   retry_count, arch, dataset_db, bg>>

NextGet ==
    \/ \E k \in StoreKeys, result \in Results :
          StoreGameResult(k[1], k[2], result, RealTag)
    \/ \E k \in StoreKeys, network \in NetworkInputs :
          GetMoveStats(k[1], k[2], network)
    \/ \E k \in StoreKeys, wins \in 0..1, losses \in 0..1,
          network \in {NoNetwork, RealTag, SampleTag} :
          UpdateMoveStats(k[1], k[2], wins, losses, 0, network)
    \/ \E network \in NetworkInputs :
          GetAllMovesForPosition(normalize_fen(StartFen), network)

SpecGet == Init /\ [][NextGet]_vars

RowsOfMove(table, fen, move) == {r \in table : r.fen = fen /\ r.move = move}

RECURSIVE SumTallies(_)
SumTallies(rows) ==
    IF rows = {} THEN <<0, 0, 0>>
    ELSE LET r == CHOOSE x \in rows : TRUE
         IN Plus3(<<r.wins, r.losses, r.draws>>, SumTallies(rows \ {r}))

\* C36: get_move_stats(position, move) without a source_tag returns the
\* aggregate across all tags that hold a row for the (position, move): the
\* sums of their wins, losses and draws, and nothing when no tag holds one;
\* with a source_tag it returns exactly that tag's row or nothing.
C36_GetAggregatesAcrossTags ==
    call.op = "get_move_stats" =>
        IF call.network = NoNetwork
        THEN /\ (ret.value = {}) = (RowsOfMove(sqlite, call.fen, call.move) = {})
             /\ Tallies(ret.value) = SumTallies(RowsOfMove(sqlite, call.fen, call.move))
        ELSE ret.value = {StatsOfRow(r) : r \in {q \in RowsOfMove(sqlite, call.fen, call.move) :
                                                    q.network = call.network}}

RowsUnder(table, fen, network) ==
    {r \in RowsAt(table, fen) : network # NoNetwork => r.network = network}

\* C37: get_all_moves_for_position returns one entry for every row recorded
\* at the position (under the tag, when one is given), ordered by
\* non-increasing performance_score, a row without games counting as 0.5.
C37_AllMovesByPerformance ==
    call.op = "get_all_moves_for_position" =>
        /\ Range(ret.list) = {StatsOfRow(r) : r \in RowsUnder(sqlite, call.fen, call.network)}
        /\ Len(ret.list) = Cardinality(RowsUnder(sqlite, call.fen, call.network))
        /\ SortedByPerformance(ret.list)

(***************************************************************************)
(* Cleanup of corrupted dataset files.                                     *)
(***************************************************************************)
\* C38: when cleanup_corrupted_datasets has returned, every catalog archive
\* file still on disk is one is_dataset_available accepts, and no file that
\* is_dataset_available accepted before the call has been removed.
C38_CleanupKeepsExactlyVerified ==
    [][MgrCleanupCorrupted =>
          /\ Exists(files', DatasetPath) => is_dataset_available(files')
          /\ is_dataset_available(files) => files' = files]_vars

(***************************************************************************)
(* Processing a dataset twice.                                             *)
(***************************************************************************)
OtherRows(table) == {r \in table : r.dataset # DatasetName}

\* The rows of the table without their last_updated column.
TalliesOfTable(table) == {[r EXCEPT !.last_updated = 0] : r \in table}

\* Every row of the dataset carries a time later than every row of the
\* dataset carried before.
Refreshed(old, new) ==
    \A r \in new \ OtherRows(new) : \A q \in old \ OtherRows(old) :
        r.last_updated > q.last_updated

\* C39 as stated: the save that ends a second or later run of
\* process_dataset over the same unchanged archive leaves the table
\* position_stats identical, and every save leaves the rows of other
\* datasets unchanged.
C39_Original ==
    [][DatasetSave =>
          /\ arch.runs > 1 => dataset_db' = dataset_db
          /\ OtherRows(dataset_db') = OtherRows(dataset_db)]_vars

\* C39 amended: the save that ends a second or later run of process_dataset
\* over the same unchanged archive leaves the table position_stats with the
\* same rows (position, move, dataset) and the same wins, losses and draws
\* in every row as the first run left it: no tally is counted twice.  Only
\* the column last_updated of the rows of the processed dataset changes, to
\* the time of the later save.  Every save leaves the rows of other
\* datasets unchanged in every column.
C39_ProcessDatasetIdempotent ==
    [][DatasetSave =>
          /\ arch.runs > 1 =>
                /\ TalliesOfTable(dataset_db') = TalliesOfTable(dataset_db)
                /\ Refreshed(dataset_db, dataset_db')
          /\ OtherRows(dataset_db') = OtherRows(dataset_db)]_vars

\* The second run over an archive with two decisive games has ended, next to
\* the rows of another dataset: the tallies are those of one run and the
\* row of the dataset carries the time of the second save.
C39_Witness ==
    /\ arch.proc = "dataset" /\ arch.pc = "done" /\ arch.runs = 2
    /\ Len(arch.recs) = MaxRecords
    /\ \E r \in dataset_db :
          r.dataset = DatasetName /\ r.wins = 1 /\ r.losses = 1 /\ r.last_updated >= 3
    /\ \E r \in dataset_db : r.dataset = OtherDataset /\ r.last_updated = 0

====
